---- MODULE Spec2Model ----
(***************************************************************************)
(* Model of the provisioning orchestrator of text_to_processor:            *)
(*   - the batch drivers create_source_processors.py and                   *)
(*     create_sink_processors.py (process_connector_configs),              *)
(*   - the connection provisioners of asp_utils/api_client.py,             *)
(*   - the auth gate of asp_utils/auth.py and the loaders/validators of    *)
(*     asp_utils/config_utils.py,                                          *)
(*   - the topic and stream-processor provisioners of api_client.py,       *)
(*   - the session tracker of text_to_processor/session_manager.py.        *)
(* External systems (Atlas CLI, mongosh, Confluent REST, folder listings)  *)
(* are the environment: their answers are chosen nondeterministically.     *)
(***************************************************************************)
EXTENDS Integers, Sequences, FiniteSets, TLC

\* ------------------------------------------------------------------------
\* Bounds of the model
\* ------------------------------------------------------------------------
\* Largest number of .json files a discovered folder holds.
MaxFiles == 3
\* Largest number of provisioner calls made against one remote.
MaxCalls == 2

\* ------------------------------------------------------------------------
\* Python / JSON values
\* ------------------------------------------------------------------------
\* A JSON value: a string, a list of strings, or a number.
Str(x) == [t |-> "str", s |-> x, l |-> << >>]
List(xs) == [t |-> "list", s |-> "", l |-> xs]
Num == [t |-> "num", s |-> "", l |-> << >>]

\* What load_json_file hands back: None, or the parsed dictionary.
PyNone == [isNone |-> TRUE, dict |-> << >>]
Dict(d) == [isNone |-> FALSE, dict |-> d]

\* Python truthiness of a loaded value (None and {} are falsy).
Truthy(v) == (~v.isNone) /\ (DOMAIN v.dict # {})

\* Python truthiness of an optional JSON value fetched with dict.get().
HasKey(cfg, k) == k \in DOMAIN cfg.dict
ValueTruthy(cfg, k) ==
    /\ HasKey(cfg, k)
    /\ LET v == cfg.dict[k]
       IN  CASE v.t = "str" -> v.s # ""
             [] v.t = "list" -> Len(v.l) > 0
             [] OTHER -> TRUE

\* ------------------------------------------------------------------------
\* Text of the external tool (stderr), as sequences of characters
\* ------------------------------------------------------------------------
UpperCase == <<"A","B","C","D","E","F","G","H","I","J","K","L","M",
               "N","O","P","Q","R","S","T","U","V","W","X","Y","Z">>
LowerCase == <<"a","b","c","d","e","f","g","h","i","j","k","l","m",
               "n","o","p","q","r","s","t","u","v","w","x","y","z">>

\* str.lower() on one character.
LowerChar(c) ==
    IF \E i \in 1..Len(UpperCase) : UpperCase[i] = c
    THEN LowerCase[CHOOSE i \in 1..Len(UpperCase) : UpperCase[i] = c]
    ELSE c

\* str.lower()
Lower(text) == [i \in 1..Len(text) |-> LowerChar(text[i])]

\* Python's  sub in text
Contains(text, sub) ==
    \E i \in 0..(Len(text) - Len(sub)) :
        \A j \in 1..Len(sub) : text[i + j] = sub[j]

MarkerAlreadyExists == <<"a","l","r","e","a","d","y"," ","e","x","i","s","t","s">>
MarkerDuplicate == <<"d","u","p","l","i","c","a","t","e">>

\* Sample stderr texts of the Atlas CLI.
ErrConnectionAlreadyExists ==
    <<"C","o","n","n","e","c","t","i","o","n"," ">> \o MarkerAlreadyExists
ErrAlreadyExistsUpper ==
    <<"N","a","m","e"," ","A","L","R","E","A","D","Y"," ","E","X","I","S","T","S">>
ErrDuplicateKey == <<"D","u","p","l","i","c","a","t","e"," ","k","e","y">>
ErrSomeOther == <<"S","o","m","e"," ","o","t","h","e","r"," ","e","r","r","o","r">>
ErrEmpty == << >>

\* ------------------------------------------------------------------------
\* Outcomes of one subprocess.run of the Atlas CLI
\* ------------------------------------------------------------------------
Exit(code, err) == [kind |-> "exit", returncode |-> code, stderr |-> err]
TimeoutExpired == [kind |-> "timeout", returncode |-> -1, stderr |-> ErrEmpty]
RaisedException == [kind |-> "exception", returncode |-> -1, stderr |-> ErrEmpty]

\* The answers the remote gives when the resource is already there.
AlreadyExistsAnswers ==
    { Exit(1, ErrConnectionAlreadyExists),
      Exit(1, ErrAlreadyExistsUpper),
      Exit(1, ErrDuplicateKey) }

ToolOutcomes ==
    { Exit(0, ErrEmpty), Exit(1, ErrSomeOther), TimeoutExpired, RaisedException }
    \cup AlreadyExistsAnswers

\* ------------------------------------------------------------------------
\* Connection provisioners (asp_utils/api_client.py)
\* ------------------------------------------------------------------------
Result(ok, created) == [success |-> ok, wasCreated |-> created]

\* Variant: the scan compares the text as written (no lower-casing).
HasExistenceMarker_CaseSensitive(stderr) ==
    \/ Contains(stderr, MarkerAlreadyExists)
    \/ Contains(stderr, MarkerDuplicate)

\* The existence-marker scan of the provisioners.
HasExistenceMarker(stderr) ==
    \/ Contains(Lower(stderr), MarkerAlreadyExists)
    \/ Contains(Lower(stderr), MarkerDuplicate)

\* Variant: a non-zero exit is a failure whatever the tool wrote to stderr.
CreateMongodbConnection_NoMarkerScan(outcome) ==
    CASE outcome.kind = "timeout" -> Result(FALSE, FALSE)
      [] outcome.kind = "exception" -> Result(FALSE, FALSE)
      [] OTHER ->
           IF outcome.returncode = 0
           THEN Result(TRUE, TRUE)
           ELSE Result(FALSE, FALSE)

\* create_mongodb_connection: the pair returned for one outcome of the tool
\* (an exception covers a failure to write the transient file as well).
CreateMongodbConnection(outcome) ==
    CASE outcome.kind = "timeout" -> Result(FALSE, FALSE)
      [] outcome.kind = "exception" -> Result(FALSE, FALSE)
      [] OTHER ->
           IF outcome.returncode = 0
           THEN Result(TRUE, TRUE)
           ELSE IF HasExistenceMarker(outcome.stderr)
                THEN Result(TRUE, FALSE)
                ELSE Result(FALSE, FALSE)

\* create_kafka_connection: the same classification, on its own tool run.
CreateKafkaConnection(outcome) ==
    CASE outcome.kind = "timeout" -> Result(FALSE, FALSE)
      [] outcome.kind = "exception" -> Result(FALSE, FALSE)
      [] OTHER ->
           IF outcome.returncode = 0
           THEN Result(TRUE, TRUE)
           ELSE IF HasExistenceMarker(outcome.stderr)
                THEN Result(TRUE, FALSE)
                ELSE Result(FALSE, FALSE)

\* ------------------------------------------------------------------------
\* Topic provisioner (asp_utils/api_client.py, create_topic)
\* ------------------------------------------------------------------------
\* One answer to the REST call: an HTTP response (status, whether the body
\* is JSON, the body's error_code or 0), or an error raised by requests.post.
Http(status, isJson, code) ==
    [kind |-> "response", status |-> status, json |-> isJson, error_code |-> code]
NetworkError == [kind |-> "network_error", status |-> 0, json |-> FALSE, error_code |-> 0]

VendorAlreadyExistsCode == 40002

TopicAnswers ==
    { Http(201, TRUE, 0), Http(409, TRUE, 0),
      Http(400, TRUE, VendorAlreadyExistsCode), Http(400, TRUE, 40301),
      Http(500, FALSE, 0), NetworkError }

CreateTopic(answer) ==
    IF answer.kind # "response"
    THEN FALSE
    ELSE IF answer.status = 201 THEN TRUE
         ELSE IF answer.status = 409 THEN TRUE
         ELSE answer.json /\ answer.error_code = VendorAlreadyExistsCode

\* ------------------------------------------------------------------------
\* Connector configuration files
\* ------------------------------------------------------------------------
\* A file on disk: whether its text parses as JSON, and the parsed dictionary.
File(parses, d) == [parses |-> parses, dict |-> d]

Without(d, k) == [x \in (DOMAIN d) \ {k} |-> d[x]]

SourceConfig(key, prefix, coll) ==
    ("kafka.api.key" :> Str(key)) @@
    ("kafka.api.secret" :> Str(key \o "-secret")) @@
    ("topic.prefix" :> Str(prefix)) @@
    ("database" :> Str("db")) @@
    ("collection" :> Str(coll)) @@
    ("connection.user" :> Str("user")) @@
    ("connection.password" :> Str("pw"))

SinkConfig(key, topics, coll) ==
    ("kafka.api.key" :> Str(key)) @@
    ("kafka.api.secret" :> Str(key \o "-secret")) @@
    ("input.data.format" :> Str("JSON")) @@
    ("connection.user" :> Str("user")) @@
    ("connection.password" :> Str("pw")) @@
    ("topics" :> topics) @@
    ("database" :> Str("db")) @@
    ("collection" :> Str(coll))

OffsetResetKey == "consumer.override.auto.offset.reset"

Unparseable == File(FALSE, << >>)
EmptyObject == File(TRUE, << >>)

SourceFiles ==
    { File(TRUE, SourceConfig("k1", "pfx", "c1")),
      File(TRUE, SourceConfig("k2", "pfx", "c2")),
      File(TRUE, Without(SourceConfig("k3", "pfx", "c3"), "topic.prefix")),
      Unparseable,
      EmptyObject }

SinkFiles ==
    { File(TRUE, SinkConfig("k1", Str("t1"), "c1")),
      File(TRUE, SinkConfig("k2", List(<<"t1", "t2">>), "c2")
                 @@ (OffsetResetKey :> Str("earliest"))),
      File(TRUE, SinkConfig("k3", Str("t3"), "c3")
                 @@ (OffsetResetKey :> Str("bogus"))),
      File(TRUE, SinkConfig("k4", List(<< >>), "c4")),
      File(TRUE, SinkConfig("k5", Num, "c5")),
      File(TRUE, Without(SinkConfig("k6", Str("t6"), "c6"), "collection")),
      File(TRUE, SinkConfig("k7", Str("t7"), "c7")
                 @@ (OffsetResetKey :> Str(""))),
      Unparseable,
      EmptyObject }

FilesOf(dir) == IF dir = "source" THEN SourceFiles ELSE SinkFiles

\* All listings of at most n files.
RECURSIVE Listings(_, _)
Listings(S, n) ==
    IF n = 0 THEN { << >> }
    ELSE LET shorter == Listings(S, n - 1)
         IN  shorter \cup { Append(l, f) : l \in { x \in shorter : Len(x) = n - 1 }, f \in S }

\* load_json_file (asp_utils/config_utils.py): None on any read or parse error.
LoadJsonFile(file) == IF file.parses THEN Dict(file.dict) ELSE PyNone

SourceRequiredFields ==
    <<"kafka.api.key", "kafka.api.secret", "topic.prefix", "database",
      "collection", "connection.user", "connection.password">>

SinkRequiredFields ==
    <<"kafka.api.key", "kafka.api.secret", "input.data.format",
      "connection.user", "connection.password", "topics", "database",
      "collection">>

\* validate_connector_config of create_source_processors.py
ValidateSourceConnectorConfig(config) ==
    \A i \in 1..Len(SourceRequiredFields) : HasKey(config, SourceRequiredFields[i])

\* validate_connector_config of create_sink_processors.py
ValidateSinkConnectorConfig(config) ==
    /\ \A i \in 1..Len(SinkRequiredFields) : HasKey(config, SinkRequiredFields[i])
    /\ config.dict["topics"].t \in {"str", "list"}
    /\ ~(config.dict["topics"].t = "list" /\ Len(config.dict["topics"].l) = 0)

ValidateConnectorConfig(dir, config) ==
    IF dir = "source"
    THEN ValidateSourceConnectorConfig(config)
    ELSE ValidateSinkConnectorConfig(config)

\* The test both loops apply to a file: it loads to a truthy value and validates.
LoadsAndValidates(dir, file) ==
    LET connector_config == LoadJsonFile(file)
    IN  Truthy(connector_config) /\ ValidateConnectorConfig(dir, connector_config)

\* The sink loop's check of the optional offset-reset policy (lines 187-190):
\* TRUE when the file is rejected.
OffsetResetRejected(config) ==
    /\ ValueTruthy(config, OffsetResetKey)
    /\ ~(config.dict[OffsetResetKey] \in {Str("earliest"), Str("latest")})

\* ------------------------------------------------------------------------
\* Auth gate (asp_utils/auth.py)
\* ------------------------------------------------------------------------
\* The outcomes of the two tool runs and of the prompt.
WhoamiOutcomes == {"exit0", "exit1", "exception"}
PromptAnswers == {"", "y", "yes", "n", "interrupt"}
LoginOutcomes == {"exit0", "exit1", "timeout", "exception"}

\* Variant: an empty answer is not taken as consent.
CheckAtlasAuthWithLogin_EmptyDeclines(whoami, answer, login) ==
    IF whoami = "exception" THEN FALSE
    ELSE IF whoami = "exit0" THEN TRUE
    ELSE IF answer = "interrupt" THEN FALSE
    ELSE IF answer \in {"y", "yes"} THEN login = "exit0"
    ELSE FALSE

\* check_atlas_auth_with_login (lines 11-63): the boolean returned.
CheckAtlasAuthWithLogin(whoami, answer, login) ==
    IF whoami = "exception" THEN FALSE
    ELSE IF whoami = "exit0" THEN TRUE
    ELSE IF answer = "interrupt" THEN FALSE
    ELSE IF answer \in {"", "y", "yes"} THEN login = "exit0"
    ELSE FALSE

\* ------------------------------------------------------------------------
\* Stream processor provisioner (asp_utils/api_client.py)
\* ------------------------------------------------------------------------
\* The parameters create_stream_processor declares (none has a default).
CreateStreamProcessorParameters ==
    <<"connection_user", "connection_password", "stream_processor_url",
      "stream_processor_name", "pipeline">>

\* The argument lists of the two call sites in the batch drivers.
SourceCallSite == [positional |-> 9, keywords |-> {"topic_prefix"}]
SinkCallSite == [positional |-> 9, keywords |-> {"topics", "auto_offset_reset"}]
CallSite(dir) == IF dir = "source" THEN SourceCallSite ELSE SinkCallSite

\* Python's argument binding: the call enters the function body only when
\* every argument finds a parameter and every parameter gets an argument;
\* otherwise the call raises TypeError.
Binds(params, call) ==
    /\ call.positional <= Len(params)
    /\ \A k \in call.keywords :
          \E i \in (call.positional + 1)..Len(params) : params[i] = k
    /\ call.positional + Cardinality(call.keywords) = Len(params)

TimeoutMessage == <<"T","i","m","e","o","u","t">>

\* The text put before the exception's own text (line 200).
UnexpectedErrorMessage ==
    <<"U","n","e","x","p","e","c","t","e","d"," ","e","r","r","o","r"," ",
      "e","x","e","c","u","t","i","n","g"," ","J","a","v","a","S","c","r","i",
      "p","t"," ","c","o","d","e",":"," ">>

\* execute_stream_processing_javascript: (success, stderr) for one mongosh run
\* (for an exception, the outcome's text is the exception's own text).
ExecuteStreamProcessingJavascript(outcome) ==
    CASE outcome.kind = "timeout" -> [success |-> FALSE, stderr |-> TimeoutMessage]
      [] outcome.kind = "exception" ->
           [success |-> FALSE, stderr |-> UnexpectedErrorMessage \o outcome.stderr]
      [] OTHER -> [success |-> outcome.returncode = 0, stderr |-> outcome.stderr]

\* Variant: only the success flag of the run counts.
CreateStreamProcessor_SuccessOnly(outcome) ==
    LET r == ExecuteStreamProcessingJavascript(outcome)
    IN  r.success

\* create_stream_processor: the boolean returned once the body runs.
CreateStreamProcessor(outcome) ==
    LET r == ExecuteStreamProcessingJavascript(outcome)
    IN  r.success \/ HasExistenceMarker(r.stderr)

\* ------------------------------------------------------------------------
\* State of one batch run (process_connector_configs)
\* ------------------------------------------------------------------------
VARIABLES
    direction,               \* "source" or "sink": which driver runs
    pc,                      \* position in process_connector_configs
    authenticated,           \* "pending", "yes", "no": result of the auth gate
    folder,                  \* "unknown", "missing", "notdir", "dir"
    json_files,              \* the discovered listing
    first_connector_config,  \* the seed: None or a loaded dictionary
    mongodb_connection,      \* (mongodb_connection_created, .._was_created)
    kafka_connection,        \* (kafka_connection_created, .._was_created)
    idx,                     \* index of the file the per-file loop is at
    counts,                  \* the three success counters
    calls,                   \* every external provisioning call, in order
    rerun                    \* the scripted environment of a repeated run

batchVars == <<direction, pc, authenticated, folder, json_files,
               first_connector_config, mongodb_connection, kafka_connection,
               idx, counts, calls, rerun>>

\* One entry of the call log.
Call(op, file, a, b, res) == [op |-> op, file |-> file, a |-> a, b |-> b, res |-> res]

\* Variant: a connection that succeeded is always reported as created.
ResultName_NeverReused(r) ==
    IF r.success THEN "created" ELSE "failed"
\* How the summary words the pair a provisioner returned (lines 216-225).
ResultName(r) ==
    IF r.success THEN (IF r.wasCreated THEN "created" ELSE "reused") ELSE "failed"
BoolName(b) == IF b THEN "ok" ELSE "fail"

NoRerun ==
    [on |-> FALSE, files |-> << >>, removed |-> 0, db |-> Result(FALSE, FALSE),
     kafka |-> Result(FALSE, FALSE), topic |-> << >>, outcomes |-> << >>]

BatchInit ==
    /\ direction \in {"source", "sink"}
    /\ pc = "start"
    /\ authenticated = "pending"
    /\ folder = "unknown"
    /\ json_files = << >>
    /\ first_connector_config = PyNone
    /\ mongodb_connection = Result(FALSE, FALSE)
    /\ kafka_connection = Result(FALSE, FALSE)
    /\ idx = 0
    /\ counts = [kafka_success_count |-> 0, stream_success_count |-> 0,
                 stream_processor_success_count |-> 0]
    /\ calls = << >>
    /\ rerun = NoRerun

\* ------------------------------------------------------------------------
\* The environment's answers.  In a first run every answer is possible; a
\* repeated run (rerun.on) is given the answers of the first run again.
\* ------------------------------------------------------------------------
ListingsOffered ==
    IF rerun.on THEN {rerun.files} ELSE Listings(FilesOf(direction), MaxFiles)

MongoOutcomes ==
    IF rerun.on
    THEN {o \in ToolOutcomes : CreateMongodbConnection(o) = rerun.db}
    ELSE ToolOutcomes

KafkaOutcomes ==
    IF rerun.on
    THEN {o \in ToolOutcomes : CreateKafkaConnection(o) = rerun.kafka}
    ELSE ToolOutcomes

TopicAnswersFor(i) ==
    IF rerun.on /\ i <= Len(rerun.topic) /\ rerun.topic[i] # "any"
    THEN {a \in TopicAnswers : BoolName(CreateTopic(a)) = rerun.topic[i]}
    ELSE TopicAnswers

\* ------------------------------------------------------------------------
\* process_connector_configs, step by step
\* ------------------------------------------------------------------------
\* Variant: the result of the auth check is reported but not acted upon.
AuthGate_NoReturn ==
    /\ pc = "start"
    /\ \E whoami \in WhoamiOutcomes, answer \in PromptAnswers, login \in LoginOutcomes :
          authenticated' = IF CheckAtlasAuthWithLogin(whoami, answer, login)
                           THEN "yes" ELSE "no"
    /\ pc' = "discover"
    /\ UNCHANGED <<direction, folder, json_files, first_connector_config,
                   mongodb_connection, kafka_connection, idx, counts, calls, rerun>>

\* Lines 76-78 (source) / 105-107 (sink): the auth gate.
AuthGate ==
    /\ pc = "start"
    /\ \E whoami \in WhoamiOutcomes, answer \in PromptAnswers, login \in LoginOutcomes :
          IF CheckAtlasAuthWithLogin(whoami, answer, login)
          THEN authenticated' = "yes" /\ pc' = "discover"
          ELSE authenticated' = "no" /\ pc' = "returned"
    /\ UNCHANGED <<direction, folder, json_files, first_connector_config,
                   mongodb_connection, kafka_connection, idx, counts, calls, rerun>>

\* The same gate step by step, each step at the point where the run waits.
\* Line 18: atlas auth whoami, given 10 seconds.
AuthWhoami ==
    /\ pc = "start"
    /\ \E whoami \in WhoamiOutcomes :
          CASE whoami = "exit0" -> authenticated' = "yes" /\ pc' = "discover"
            [] whoami = "exception" -> authenticated' = "no" /\ pc' = "returned"
            [] OTHER -> authenticated' = authenticated /\ pc' = "prompt"
    /\ UNCHANGED <<direction, folder, json_files, first_connector_config,
                   mongodb_connection, kafka_connection, idx, counts, calls, rerun>>

\* Line 31: input() returns once the user has answered (or interrupted);
\* nothing bounds the wait.
AuthPrompt ==
    /\ pc = "prompt"
    /\ \E answer \in PromptAnswers :
          IF answer \in {"", "y", "yes"}
          THEN authenticated' = authenticated /\ pc' = "login"
          ELSE authenticated' = "no" /\ pc' = "returned"
    /\ UNCHANGED <<direction, folder, json_files, first_connector_config,
                   mongodb_connection, kafka_connection, idx, counts, calls, rerun>>

\* Line 38: atlas auth login, given 120 seconds.
AuthLogin ==
    /\ pc = "login"
    /\ \E login \in LoginOutcomes :
          IF login = "exit0"
          THEN authenticated' = "yes" /\ pc' = "discover"
          ELSE authenticated' = "no" /\ pc' = "returned"
    /\ UNCHANGED <<direction, folder, json_files, first_connector_config,
                   mongodb_connection, kafka_connection, idx, counts, calls, rerun>>

\* Variant: an empty listing is processed like any other.
Discover_NoEmptyCheck ==
    /\ pc = "discover"
    /\ \E f \in (IF rerun.on THEN {"dir"} ELSE {"missing", "notdir", "dir"}) :
          /\ folder' = f
          /\ IF f # "dir"
             THEN json_files' = << >> /\ pc' = "returned"
             ELSE \E listing \in ListingsOffered :
                     /\ json_files' = listing
                     /\ pc' = "seed"
    /\ UNCHANGED <<direction, authenticated, first_connector_config,
                   mongodb_connection, kafka_connection, idx, counts, calls, rerun>>

\* Lines 80-95 / 109-124: the folder checks and the listing of *.json.
Discover ==
    /\ pc = "discover"
    /\ \E f \in (IF rerun.on THEN {"dir"} ELSE {"missing", "notdir", "dir"}) :
          /\ folder' = f
          /\ IF f # "dir"
             THEN json_files' = << >> /\ pc' = "returned"
             ELSE \E listing \in ListingsOffered :
                     /\ json_files' = listing
                     /\ pc' = IF Len(listing) = 0 THEN "returned" ELSE "seed"
    /\ UNCHANGED <<direction, authenticated, first_connector_config,
                   mongodb_connection, kafka_connection, idx, counts, calls, rerun>>

\* Variant: the scan does not stop at the first hit, so the last one wins.
FirstValidIndex_NoBreak(dir, listing) ==
    IF \E i \in 1..Len(listing) : LoadsAndValidates(dir, listing[i])
    THEN CHOOSE i \in 1..Len(listing) :
            /\ LoadsAndValidates(dir, listing[i])
            /\ \A j \in (i + 1)..Len(listing) : ~LoadsAndValidates(dir, listing[j])
    ELSE 0

\* The first file of a listing that loads and validates (0 when none does).
FirstValidIndex(dir, listing) ==
    IF \E i \in 1..Len(listing) : LoadsAndValidates(dir, listing[i])
    THEN CHOOSE i \in 1..Len(listing) :
            /\ LoadsAndValidates(dir, listing[i])
            /\ \A j \in 1..(i - 1) : ~LoadsAndValidates(dir, listing[j])
    ELSE 0

\* Lines 105-111 / 134-140: seed selection.
SelectSeed ==
    /\ pc = "seed"
    /\ LET i == FirstValidIndex(direction, json_files)
       IN  first_connector_config' =
               IF i = 0 THEN PyNone ELSE LoadJsonFile(json_files[i])
    /\ pc' = "mongo"
    /\ UNCHANGED <<direction, authenticated, folder, json_files,
                   mongodb_connection, kafka_connection, idx, counts, calls, rerun>>

\* Variant: both drivers rely on the provisioner's default role.
RoleName_Default(dir) == "readAnyDatabase"

\* The role each driver asks for (line 120 / line 149).
RoleName(dir) == IF dir = "source" THEN "readAnyDatabase" ELSE "readWriteAnyDatabase"

\* Lines 113-121 / 142-150: the shared database connection.
ProvisionMongo ==
    /\ pc = "mongo"
    /\ \E o \in MongoOutcomes :
          LET r == CreateMongodbConnection(o)
          IN  /\ mongodb_connection' = r
              /\ calls' = Append(calls, Call("create_mongodb_connection", 0,
                                             RoleName(direction), "", ResultName(r)))
    /\ pc' = "kafka"
    /\ UNCHANGED <<direction, authenticated, folder, json_files,
                   first_connector_config, kafka_connection, idx, counts, rerun>>

\* Variant: the queue connection is not provisioned before the loop starts.
ProvisionKafka_Omitted ==
    /\ pc = "kafka"
    /\ pc' = "loop"
    /\ idx' = 1
    /\ UNCHANGED <<direction, authenticated, folder, json_files,
                   first_connector_config, mongodb_connection, kafka_connection,
                   counts, calls, rerun>>

\* Variant: the queue connection is provisioned whether or not a seed exists.
ProvisionKafka_Unconditional ==
    /\ pc = "kafka"
    /\ \E o \in KafkaOutcomes :
          LET r == CreateKafkaConnection(o)
              seeded == Truthy(first_connector_config)
          IN  /\ kafka_connection' = r
              /\ calls' = Append(calls,
                    Call("create_kafka_connection", 0,
                         IF seeded THEN first_connector_config.dict["kafka.api.key"].s ELSE "",
                         IF seeded THEN first_connector_config.dict["kafka.api.secret"].s ELSE "",
                         ResultName(r)))
    /\ pc' = "loop"
    /\ idx' = 1
    /\ UNCHANGED <<direction, authenticated, folder, json_files,
                   first_connector_config, mongodb_connection, counts, rerun>>

\* Lines 123-138 / 152-165: the shared queue connection, when a seed exists,
\* and the counters' initialisation.
ProvisionKafka ==
    /\ pc = "kafka"
    /\ IF Truthy(first_connector_config)
       THEN \E o \in KafkaOutcomes :
               LET r == CreateKafkaConnection(o)
               IN  /\ kafka_connection' = r
                   /\ calls' = Append(calls,
                         Call("create_kafka_connection", 0,
                              first_connector_config.dict["kafka.api.key"].s,
                              first_connector_config.dict["kafka.api.secret"].s,
                              ResultName(r)))
       ELSE UNCHANGED <<kafka_connection, calls>>
    /\ pc' = "loop"
    /\ idx' = 1
    /\ UNCHANGED <<direction, authenticated, folder, json_files,
                   first_connector_config, mongodb_connection, counts, rerun>>

\* The file the loop is at.
CurrentFile == json_files[idx]
CurrentConfig == LoadJsonFile(CurrentFile)

\* The per-file checks that end an iteration with 'continue'.
Skipped(dir, file) ==
    \/ ~LoadsAndValidates(dir, file)
    \/ dir = "sink" /\ OffsetResetRejected(LoadJsonFile(file))

\* Variant: a file that fails its checks ends the loop (break, not continue).
SkipFile_Break ==
    /\ pc = "loop"
    /\ idx <= Len(json_files)
    /\ Skipped(direction, CurrentFile)
    /\ pc' = "done"
    /\ UNCHANGED <<direction, authenticated, folder, json_files,
                   first_connector_config, mongodb_connection, kafka_connection,
                   idx, counts, calls, rerun>>

\* Lines 144-150 / 171-190: a file that fails its checks is passed over.
SkipFile ==
    /\ pc = "loop"
    /\ idx <= Len(json_files)
    /\ Skipped(direction, CurrentFile)
    /\ idx' = idx + 1
    /\ UNCHANGED <<direction, pc, authenticated, folder, json_files,
                   first_connector_config, mongodb_connection, kafka_connection,
                   counts, calls, rerun>>

\* Line 162: the topic name of a source file.
TopicName(config) ==
    config.dict["topic.prefix"].s \o "." \o config.dict["database"].s
        \o "." \o config.dict["collection"].s

\* Variant: a file whose topic creation failed is gone through once more.
SourceFile_RetryTopic ==
    /\ pc = "loop"
    /\ direction = "source"
    /\ idx <= Len(json_files)
    /\ ~Skipped(direction, CurrentFile)
    /\ \E answer \in TopicAnswersFor(idx) :
          LET kafka_success == CreateTopic(answer)
              usable == kafka_success /\ kafka_connection.success
              again == /\ ~kafka_success
                       /\ \A n \in 1..Len(calls) :
                             ~(calls[n].op = "create_topic" /\ calls[n].file = idx)
          IN  /\ calls' = Append(calls,
                     Call("create_topic", idx, TopicName(CurrentConfig),
                          CurrentConfig.dict["kafka.api.key"].s,
                          BoolName(kafka_success)))
              /\ counts' = [counts EXCEPT
                     !.kafka_success_count = @ + (IF kafka_success THEN 1 ELSE 0),
                     !.stream_success_count = @ + (IF usable THEN 1 ELSE 0)]
              /\ IF usable /\ mongodb_connection.success
                 THEN pc' = "sp_call" /\ idx' = idx
                 ELSE pc' = "loop" /\ idx' = (IF again THEN idx ELSE idx + 1)
    /\ UNCHANGED <<direction, authenticated, folder, json_files,
                   first_connector_config, mongodb_connection, kafka_connection,
                   rerun>>

\* Lines 152-201 of create_source_processors.py: topic creation and the
\* nested connection gates, up to the call of create_stream_processor.
SourceFile ==
    /\ pc = "loop"
    /\ direction = "source"
    /\ idx <= Len(json_files)
    /\ ~Skipped(direction, CurrentFile)
    /\ \E answer \in TopicAnswersFor(idx) :
          LET kafka_success == CreateTopic(answer)
              usable == kafka_success /\ kafka_connection.success
          IN  /\ calls' = Append(calls,
                     Call("create_topic", idx, TopicName(CurrentConfig),
                          CurrentConfig.dict["kafka.api.key"].s,
                          BoolName(kafka_success)))
              /\ counts' = [counts EXCEPT
                     !.kafka_success_count = @ + (IF kafka_success THEN 1 ELSE 0),
                     !.stream_success_count = @ + (IF usable THEN 1 ELSE 0)]
              /\ IF usable /\ mongodb_connection.success
                 THEN pc' = "sp_call" /\ idx' = idx
                 ELSE pc' = "loop" /\ idx' = idx + 1
    /\ UNCHANGED <<direction, authenticated, folder, json_files,
                   first_connector_config, mongodb_connection, kafka_connection,
                   rerun>>

\* Variant: the gate looks at the database connection only.
SinkFile_MongoOnly ==
    /\ pc = "loop"
    /\ direction = "sink"
    /\ idx <= Len(json_files)
    /\ ~Skipped(direction, CurrentFile)
    /\ IF mongodb_connection.success
       THEN pc' = "sp_call" /\ idx' = idx
       ELSE pc' = "loop" /\ idx' = idx + 1
    /\ UNCHANGED <<direction, authenticated, folder, json_files,
                   first_connector_config, mongodb_connection, kafka_connection,
                   counts, calls, rerun>>

\* Lines 179-212 of create_sink_processors.py: the connection gate.
SinkFile ==
    /\ pc = "loop"
    /\ direction = "sink"
    /\ idx <= Len(json_files)
    /\ ~Skipped(direction, CurrentFile)
    /\ IF mongodb_connection.success /\ kafka_connection.success
       THEN pc' = "sp_call" /\ idx' = idx
       ELSE pc' = "loop" /\ idx' = idx + 1
    /\ UNCHANGED <<direction, authenticated, folder, json_files,
                   first_connector_config, mongodb_connection, kafka_connection,
                   counts, calls, rerun>>

\* Lines 183-197 / 195-210: the call of create_stream_processor.  The call
\* raises TypeError when its arguments do not bind to the parameters; nothing
\* in process_connector_configs or main catches it.
CallCreateStreamProcessor ==
    /\ pc = "sp_call"
    /\ IF Binds(CreateStreamProcessorParameters, CallSite(direction))
       THEN \E o \in ToolOutcomes :
               LET ok == CreateStreamProcessor(o)
               IN  /\ calls' = Append(calls,
                         Call("create_stream_processor", idx, "", "", BoolName(ok)))
                   /\ counts' = [counts EXCEPT
                         !.stream_processor_success_count = @ + (IF ok THEN 1 ELSE 0)]
                   /\ pc' = "loop"
                   /\ idx' = idx + 1
       ELSE /\ calls' = Append(calls,
                   Call("create_stream_processor", idx, "", "", "TypeError"))
            /\ pc' = "raised"
            /\ UNCHANGED <<counts, idx>>
    /\ UNCHANGED <<direction, authenticated, folder, json_files,
                   first_connector_config, mongodb_connection, kafka_connection,
                   rerun>>

\* Lines 203-216 / 214-226: the summary, reached when the loop is exhausted.
Summary ==
    /\ pc = "loop"
    /\ idx > Len(json_files)
    /\ pc' = "done"
    /\ UNCHANGED <<direction, authenticated, folder, json_files,
                   first_connector_config, mongodb_connection, kafka_connection,
                   idx, counts, calls, rerun>>

\* Lines 214-226 (sink) / 203-216 (source): what the summary prints -- the
\* status of each shared connection and the processor count out of the
\* number of discovered files.
SummaryReport ==
    [mongodb |-> ResultName(mongodb_connection),
     kafka |-> ResultName(kafka_connection),
     processors |-> counts.stream_processor_success_count,
     total |-> Len(json_files)]

\* The exit status of the driver process once main is over: main returns
\* after process_connector_configs whatever that did (status 0), and an
\* exception nothing catches ends the interpreter with status 1.
ExitCode == IF pc = "raised" THEN 1 ELSE 0


\* ------------------------------------------------------------------------
\* A repeated run of the same batch without its malformed files
\* ------------------------------------------------------------------------
\* A malformed connector file: unparseable, or a required field is missing.
Malformed(dir, file) ==
    \/ ~file.parses
    \/ LET required == IF dir = "source" THEN SourceRequiredFields ELSE SinkRequiredFields
       IN  \E i \in 1..Len(required) : required[i] \notin DOMAIN file.dict

\* What the run did for file i: the result of its topic call and of its
\* processor call ("none" when the call was not made).
ResultOf(log, op, i) ==
    IF \E n \in 1..Len(log) : log[n].op = op /\ log[n].file = i
    THEN log[CHOOSE n \in 1..Len(log) : log[n].op = op /\ log[n].file = i].res
    ELSE "none"

Outcome(log, i) ==
    [topic |-> ResultOf(log, "create_topic", i),
     processor |-> ResultOf(log, "create_stream_processor", i)]

\* The indices of the well-formed files of the listing, in listing order.
WellFormedIndices ==
    SelectSeq([i \in 1..Len(json_files) |-> i],
              LAMBDA i : ~Malformed(direction, json_files[i]))

\* Once a run that passed the gate has ended, the same driver is run again on
\* the listing without its malformed files, against the same answers.
Rerun ==
    /\ pc \in {"done", "raised"}
    /\ ~rerun.on
    /\ LET kept == WellFormedIndices
       IN  rerun' = [on |-> TRUE,
                     files |-> [k \in 1..Len(kept) |-> json_files[kept[k]]],
                     removed |-> Len(json_files) - Len(kept),
                     db |-> mongodb_connection,
                     kafka |-> kafka_connection,
                     topic |-> [k \in 1..Len(kept) |->
                                   LET r == ResultOf(calls, "create_topic", kept[k])
                                   IN  IF r = "none" THEN "any" ELSE r],
                     outcomes |-> [k \in 1..Len(kept) |-> Outcome(calls, kept[k])]]
    /\ pc' = "discover"
    /\ folder' = "unknown"
    /\ json_files' = << >>
    /\ first_connector_config' = PyNone
    /\ mongodb_connection' = Result(FALSE, FALSE)
    /\ kafka_connection' = Result(FALSE, FALSE)
    /\ idx' = 0
    /\ counts' = [kafka_success_count |-> 0, stream_success_count |-> 0,
                  stream_processor_success_count |-> 0]
    /\ calls' = << >>
    /\ UNCHANGED <<direction, authenticated>>

\* ------------------------------------------------------------------------
\* The connection provisioners against a remote that keeps what it created
\* and a local file system that holds their transient config files
\* ------------------------------------------------------------------------
VARIABLES
    remote,     \* the connection names the remote instance holds
    provLog,    \* the provisioner calls made so far, with their results
    fsys,       \* the local file system: what each transient path holds
    lastRun     \* the tool run of the latest provisioner call

provVars == <<remote, provLog, fsys, lastRun>>

ConnectionNames == {"mongo-conn", "kafka-conn"}
Roles == {"readAnyDatabase", "readWriteAnyDatabase"}
ApiKeys == {"k1", "k2"}

\* The confluent_rest_endpoint argument: the value the main config holds
\* under "confluent-rest-endpoint" (a JSON string, or some other JSON value).
Endpoints == { Str("https://pkc.example:443"), Num }

\* Line 36: the transient file of create_mongodb_connection.
MongoTempFile == "temporary-connection-file.json"
\* Line 112: the transient file of create_kafka_connection.
KafkaTempFile(connection_name) == "/tmp/" \o connection_name \o "_config.json"

TempPaths == {MongoTempFile} \cup { KafkaTempFile(n) : n \in ConnectionNames }

\* What a path of the local file system can hold: nothing; a file that was
\* there before the call; the config a provisioner wrote; or an entry that can
\* be neither opened for writing nor removed with os.remove (a directory).
Absent == "absent"
UserFile == "user"
ConfigFile == "config"
Occupied == "occupied"

Clean == [p \in TempPaths |-> Absent]
Stale == [p \in TempPaths |-> UserFile]
Blocked == [p \in TempPaths |-> Occupied]

\* No tool run (before the first call, or when a call fails before its run).
NotRun == [kind |-> "none", returncode |-> -1, stderr |-> ErrEmpty]
NoRun == [provisioner |-> "", path |-> "", outcome |-> NotRun, wrote |-> FALSE]

ProvIdle ==
    remote = {} /\ provLog = << >> /\ fsys = Clean /\ lastRun = NoRun
ProvInit ==
    /\ remote \in SUBSET ConnectionNames
    /\ provLog = << >>
    /\ fsys \in {Clean, Stale, Blocked}
    /\ lastRun = NoRun

\* What one run of 'atlas streams connection(s) create <name>' can do: the
\* remote answers (creating the connection when it is absent, reporting that
\* it exists otherwise), or rejects the request, or the run times out (the
\* request may or may not have arrived), or the provisioner fails locally.
\* Each element is <<outcome, remote afterwards, answered by the remote>>.
ToolRuns(name) ==
    (IF name \in remote
     THEN { <<o, remote, TRUE>> : o \in AlreadyExistsAnswers }
     ELSE { <<Exit(0, ErrEmpty), remote \cup {name}, TRUE>> })
    \cup { <<Exit(1, ErrSomeOther), remote, FALSE>>,
           <<Exit(2, ErrEmpty), remote, FALSE>>,
           <<TimeoutExpired, remote, FALSE>>,
           <<TimeoutExpired, remote \cup {name}, FALSE>>,
           <<RaisedException, remote, FALSE>> }

\* The try block up to the tool run (lines 37-51 / 113-127): open(path, 'w')
\* and json.dump, then subprocess.run.  When the path cannot be opened for
\* writing, or the write fails, an exception is raised before the tool runs.
\* Each element is <<outcome, remote afterwards, answered, file written>>.
TryRuns(name, path) ==
    IF fsys[path] = Occupied
    THEN { <<RaisedException, remote, FALSE, FALSE>> }
    ELSE { <<run[1], run[2], run[3], TRUE>> : run \in ToolRuns(name) }
         \cup { <<RaisedException, remote, FALSE, FALSE>> }

\* The file system once the try block has written (or failed to write).
Written(fs, path, wrote) == IF wrote THEN [fs EXCEPT ![path] = ConfigFile] ELSE fs

\* Variant: the transient file is left where it was written.
RemoveTempFile_Kept(fs, path) == [fs |-> fs, raised |-> FALSE]

\* The finally block (lines 72-76 / 148-152): os.remove when os.path.exists.
\* os.remove raises on an entry it cannot remove, and an exception raised by
\* a finally block replaces the pending return.
RemoveTempFile(fs, path) ==
    IF fs[path] = Absent THEN [fs |-> fs, raised |-> FALSE]
    ELSE IF fs[path] = Occupied THEN [fs |-> fs, raised |-> TRUE]
    ELSE [fs |-> [fs EXCEPT ![path] = Absent], raised |-> FALSE]

ProvEntry(provisioner, name, param, answered, res, raised) ==
    [provisioner |-> provisioner, name |-> name, param |-> param,
     answered |-> answered, res |-> res, raised |-> raised]

\* One call of create_mongodb_connection(group, tenant, cluster, name, role).
CallCreateMongodbConnection ==
    /\ Len(provLog) < MaxCalls
    /\ \E name \in ConnectionNames, role \in Roles :
          \E run \in TryRuns(name, MongoTempFile) :
             LET fin == RemoveTempFile(Written(fsys, MongoTempFile, run[4]),
                                       MongoTempFile)
             IN  /\ remote' = run[2]
                 /\ fsys' = fin.fs
                 /\ lastRun' = [provisioner |-> "create_mongodb_connection",
                                path |-> MongoTempFile, outcome |-> run[1],
                                wrote |-> run[4]]
                 /\ provLog' = Append(provLog,
                        ProvEntry("create_mongodb_connection", name, role, run[3],
                                  CreateMongodbConnection(run[1]), fin.raised))
    /\ UNCHANGED batchVars

\* One call of create_kafka_connection(group, tenant, name, endpoint, key, secret).
\* Line 90 calls .replace on the endpoint before the try block is entered.
CallCreateKafkaConnection ==
    /\ Len(provLog) < MaxCalls
    /\ \E name \in ConnectionNames, key \in ApiKeys, endpoint \in Endpoints :
          IF endpoint.t # "str"
          THEN /\ UNCHANGED <<remote, fsys>>
               /\ lastRun' = [provisioner |-> "create_kafka_connection",
                              path |-> KafkaTempFile(name), outcome |-> NotRun,
                              wrote |-> FALSE]
               /\ provLog' = Append(provLog,
                      ProvEntry("create_kafka_connection", name, key, FALSE,
                                Result(FALSE, FALSE), TRUE))
          ELSE \E run \in TryRuns(name, KafkaTempFile(name)) :
                  LET fin == RemoveTempFile(
                                 Written(fsys, KafkaTempFile(name), run[4]),
                                 KafkaTempFile(name))
                  IN  /\ remote' = run[2]
                      /\ fsys' = fin.fs
                      /\ lastRun' = [provisioner |-> "create_kafka_connection",
                                     path |-> KafkaTempFile(name),
                                     outcome |-> run[1], wrote |-> run[4]]
                      /\ provLog' = Append(provLog,
                             ProvEntry("create_kafka_connection", name, key, run[3],
                                       CreateKafkaConnection(run[1]), fin.raised))
    /\ UNCHANGED batchVars

\* ------------------------------------------------------------------------
\* Single calls of the functions of asp_utils and of the drivers' main
\* ------------------------------------------------------------------------
\* Largest number of trailing '/' characters of a stream-engine URL.
MaxSlashes == 2

VARIABLES
    api         \* the latest call: operation, argument, tool runs, result

apiVars == <<api>>

\* No call made yet; each behaviour makes one call, on any input.
NoCall == [op |-> "none", arg |-> << >>, url |-> << >>, runs |-> << >>, ret |-> FALSE]

ApiIdle == api = NoCall

\* --- create_topic ---------------------------------------------------------
\* Responses of the REST endpoint beyond those a batch meets.
TopicResponses ==
    TopicAnswers \cup
    { Http(200, TRUE, VendorAlreadyExistsCode), Http(200, TRUE, 0),
      Http(204, FALSE, 0), Http(404, FALSE, 0),
      Http(500, TRUE, VendorAlreadyExistsCode), Http(400, TRUE, 0) }

CallCreateTopic ==
    /\ api = NoCall
    /\ \E answer \in TopicResponses :
        api' = [op |-> "create_topic", arg |-> answer, url |-> << >>,
                runs |-> << >>, ret |-> CreateTopic(answer)]

\* --- the remote-shell execution primitive ----------------------------------
UrlBase == <<"m","o","n","g","o","d","b",":","/","/","h">>

RECURSIVE Slashes(_)
Slashes(n) == IF n = 0 THEN << >> ELSE Append(Slashes(n - 1), "/")

\* The stream-engine URLs given: no URL text at all, or a host followed by
\* zero or more '/' characters.
StreamProcessorUrls == { << >> } \cup { UrlBase \o Slashes(k) : k \in 0..MaxSlashes }

\* str.endswith for a one-character suffix.
EndsWith(text, c) == Len(text) > 0 /\ text[Len(text)] = c

\* Lines 174-176: the URL placed in the mongosh command.
StreamProcessorUrl(stream_processor_url) ==
    IF ~EndsWith(stream_processor_url, "/")
    THEN Append(stream_processor_url, "/")
    ELSE stream_processor_url

\* An exception subprocess.run raises when mongosh is not installed.
RaisedFileNotFound ==
    [kind |-> "exception", returncode |-> -1,
     stderr |-> <<"N","o"," ","s","u","c","h"," ","f","i","l","e"," ","o","r"," ",
                  "d","i","r","e","c","t","o","r","y",":"," ","'","m","o","n","g",
                  "o","s","h","'">>]

\* The outcomes of one mongosh run: those of any tool run, a successful run
\* that wrote a warning, a failed run whose text names no marker.
MongoshOutcomes ==
    ToolOutcomes \cup { RaisedFileNotFound, Exit(0, ErrDuplicateKey), Exit(1, ErrEmpty) }

CallExecuteStreamProcessingJavascript ==
    /\ api = NoCall
    /\ \E stream_processor_url \in StreamProcessorUrls, outcome \in MongoshOutcomes :
        api' = [op |-> "execute_stream_processing_javascript",
                arg |-> stream_processor_url,
                url |-> StreamProcessorUrl(stream_processor_url),
                runs |-> <<outcome>>,
                ret |-> ExecuteStreamProcessingJavascript(outcome)]

\* One call of create_stream_processor with the five arguments it declares:
\* it delegates to the primitive once (lines 231-236) and classifies.
CallCreateStreamProcessorDirect ==
    /\ api = NoCall
    /\ \E stream_processor_url \in StreamProcessorUrls, outcome \in MongoshOutcomes :
        api' = [op |-> "create_stream_processor",
                arg |-> stream_processor_url,
                url |-> StreamProcessorUrl(stream_processor_url),
                runs |-> <<outcome>>,
                ret |-> CreateStreamProcessor(outcome)]

\* --- validate_main_config and main -----------------------------------------
\* Variant: one of the names is not on the list.
MainRequiredFields_Short ==
    <<"confluent-cluster-id", "confluent-rest-endpoint",
      "mongodb-stream-processor-instance-url", "stream-processor-prefix",
      "kafka-connection-name", "mongodb-connection-name",
      "mongodb-group-id", "mongodb-tenant-name">>

\* required_fields of validate_main_config (lines 30-40).
MainRequiredFields ==
    <<"confluent-cluster-id", "confluent-rest-endpoint",
      "mongodb-stream-processor-instance-url", "stream-processor-prefix",
      "kafka-connection-name", "mongodb-connection-name",
      "mongodb-cluster-name", "mongodb-group-id", "mongodb-tenant-name">>

\* validate_main_config (lines 42-47).
ValidateMainConfig(config) ==
    \A i \in 1..Len(MainRequiredFields) : HasKey(config, MainRequiredFields[i])

\* Main config dictionaries: any selection of the nine documented fields,
\* with or without an extra field, at most one field holding "".
DocumentedFields ==
    {"confluent-cluster-id", "confluent-rest-endpoint",
     "mongodb-stream-processor-instance-url", "stream-processor-prefix",
     "kafka-connection-name", "mongodb-connection-name",
     "mongodb-cluster-name", "mongodb-group-id", "mongodb-tenant-name"}
ExtraFields == {"extra-field"}

MainConfig(present, extra, emptied) ==
    [k \in present \cup extra |-> IF k \in emptied THEN Str("") ELSE Str("x")]

MainConfigs ==
    { MainConfig(present, extra, emptied) :
        present \in SUBSET DocumentedFields,
        extra \in SUBSET ExtraFields,
        emptied \in { {} } \cup { {k} : k \in DocumentedFields } }

CallValidateMainConfig ==
    /\ api = NoCall
    /\ \E d \in MainConfigs :
        api' = [op |-> "validate_main_config", arg |-> Dict(d), url |-> << >>,
                runs |-> << >>, ret |-> ValidateMainConfig(Dict(d))]

\* main of both drivers (lines 240-259 / 250-268): load the main config,
\* validate it, and only then enter process_connector_configs.
Main(file) ==
    LET main_config == LoadJsonFile(file)
    IN  IF ~Truthy(main_config) THEN "exit 1"
        ELSE IF ~ValidateMainConfig(main_config) THEN "exit 1"
        ELSE "process_connector_configs"

CallMain ==
    /\ api = NoCall
    /\ \E file \in { File(TRUE, d) : d \in MainConfigs } \cup { Unparseable } :
        api' = [op |-> "main", arg |-> file, url |-> << >>,
                runs |-> << >>, ret |-> Main(file)]

\* ------------------------------------------------------------------------
\* The auth gate called on its own (asp_utils/auth.py, lines 11-63)
\* ------------------------------------------------------------------------
\* .strip().lower() of what the user typed (line 31); an interrupt or a
\* closed stdin leaves input() by an exception and is passed on as it is.
NormalisedAnswer(typed) ==
    CASE typed = "Y" -> "y"
      [] typed = " Yes " -> "yes"
      [] typed = " " -> ""
      [] typed = "NO" -> "no"
      [] OTHER -> typed

\* The tool runs of one call, in order: whoami (line 18), then login (line
\* 38) when whoami exited non-zero and the answer was '', 'y' or 'yes'.
AuthRuns(whoami, answer, login) ==
    IF whoami = "exit1" /\ answer \in {"", "y", "yes"}
    THEN <<"whoami", "login">>
    ELSE <<"whoami">>

CallCheckAtlasAuthWithLogin ==
    /\ api = NoCall
    /\ \E whoami \in WhoamiOutcomes, login \in LoginOutcomes,
          typed \in PromptAnswers \cup {"Y", " Yes ", " ", "NO", "no", "maybe", "eof"} :
        LET answer == NormalisedAnswer(typed)
        IN  api' = [op |-> "check_atlas_auth_with_login",
                    arg |-> [whoami |-> whoami, typed |-> typed, login |-> login],
                    url |-> << >>,
                    runs |-> AuthRuns(whoami, answer, login),
                    ret |-> CheckAtlasAuthWithLogin(whoami, answer, login)]

\* ------------------------------------------------------------------------
\* Pipeline builders (asp_utils/api_client.py, lines 306-390)
\* ------------------------------------------------------------------------
\* Python's None where a string or a list may be given.
NoValue == [t |-> "none", s |-> "", l |-> << >>]

\* Python truthiness of a value: None, "" and [] are falsy.
TruthyValue(v) ==
    CASE v.t = "none" -> FALSE
      [] v.t = "str" -> v.s # ""
      [] v.t = "list" -> Len(v.l) > 0
      [] OTHER -> TRUE

\* create_simple_mongodb_to_kafka_topic_pipeline (lines 306-340).
CreateSimpleMongodbToKafkaTopicPipeline(mongodb_connection_name, database, collection, kafka_connection_name, topic) ==
    << ("$source" :> [connectionName |-> mongodb_connection_name,
                      db |-> database,
                      coll |-> collection]),
       ("$emit" :> [connectionName |-> kafka_connection_name,
                    topic |-> topic]) >>

\* Variant: the config entry is added for every policy other than None.
CreateSimpleKafkaTopicToMongodbPipeline_NotNone(kafka_connection_name, topics, mongodb_connection_name, database, collection, auto_offset_reset) ==
    LET plain == ("connectionName" :> Str(kafka_connection_name)) @@
                 ("topic" :> topics)
        source_stage ==
            IF auto_offset_reset # NoValue
            THEN plain @@ ("config" :> ("auto_offset_reset" :> auto_offset_reset))
            ELSE plain
    IN  << ("$source" :> source_stage),
           ("$merge" :> ("into" :> [connectionName |-> mongodb_connection_name,
                                    db |-> database,
                                    coll |-> collection])) >>

\* create_simple_kafka_topic_to_mongodb_pipeline (lines 343-390): the config
\* entry is added under `if auto_offset_reset:`.
CreateSimpleKafkaTopicToMongodbPipeline(kafka_connection_name, topics, mongodb_connection_name, database, collection, auto_offset_reset) ==
    LET plain == ("connectionName" :> Str(kafka_connection_name)) @@
                 ("topic" :> topics)
        source_stage ==
            IF TruthyValue(auto_offset_reset)
            THEN plain @@ ("config" :> ("auto_offset_reset" :> auto_offset_reset))
            ELSE plain
    IN  << ("$source" :> source_stage),
           ("$merge" :> ("into" :> [connectionName |-> mongodb_connection_name,
                                    db |-> database,
                                    coll |-> collection])) >>

\* The offset policies the sink builder is called with.
OffsetPolicies == {NoValue, Str("earliest"), Str("latest"), Str(""), Str("bogus")}

CallCreateSimpleMongodbToKafkaTopicPipeline ==
    /\ api = NoCall
    /\ \E mc \in {"kc", "mc"}, kc \in {"kc", "mc"},
          database \in {"d", ""}, collection \in {"c", "c2"},
          topic \in {"pfx.d.c", ""} :
        api' = [op |-> "create_simple_mongodb_to_kafka_topic_pipeline",
                arg |-> [mongodb_connection_name |-> mc, database |-> database,
                         collection |-> collection,
                         kafka_connection_name |-> kc, topic |-> topic],
                url |-> << >>, runs |-> << >>,
                ret |-> CreateSimpleMongodbToKafkaTopicPipeline(
                            mc, database, collection, kc, topic)]

CallCreateSimpleKafkaTopicToMongodbPipeline ==
    /\ api = NoCall
    /\ \E kc \in {"kc", "mc"}, mc \in {"kc", "mc"},
          topics \in {Str("t1"), Str(""), List(<<"t1", "t2">>), List(<< >>)},
          database \in {"d", ""}, collection \in {"c", "c2"},
          auto_offset_reset \in OffsetPolicies :
        api' = [op |-> "create_simple_kafka_topic_to_mongodb_pipeline",
                arg |-> [kafka_connection_name |-> kc, topics |-> topics,
                         mongodb_connection_name |-> mc, database |-> database,
                         collection |-> collection,
                         auto_offset_reset |-> auto_offset_reset],
                url |-> << >>, runs |-> << >>,
                ret |-> CreateSimpleKafkaTopicToMongodbPipeline(
                            kc, topics, mc, database, collection,
                            auto_offset_reset)]

\* --- process_temporary_pipeline (lines 257-303) ---------------------------
\* Variant: the dlq entry is added only for a non-empty target.
TemporaryOptions_Truthy(dlq, dry_run) ==
    [k \in (IF TruthyValue(dlq) THEN {"dlq"} ELSE {})
           \cup (IF dry_run THEN {"dryRun"} ELSE {})
       |-> IF k = "dlq" THEN dlq ELSE Str("true")]

\* Lines 283-288: the options object, dlq under `is not None`, dryRun under
\* `if dry_run`; json.dumps writes Python's True as true.
TemporaryOptions(dlq, dry_run) ==
    [k \in (IF dlq # NoValue THEN {"dlq"} ELSE {})
           \cup (IF dry_run THEN {"dryRun"} ELSE {})
       |-> IF k = "dlq" THEN dlq ELSE Str("true")]

\* Lines 290-295: the arguments of sp.process in the command.
SpProcessArguments(pipeline, dlq, dry_run) ==
    IF DOMAIN TemporaryOptions(dlq, dry_run) # {}
    THEN <<pipeline, TemporaryOptions(dlq, dry_run)>>
    ELSE <<pipeline>>

\* One call: the command is handed to execute_stream_processing_javascript
\* (lines 298-303), whose result is returned.
CallProcessTemporaryPipeline ==
    /\ api = NoCall
    /\ \E pipeline \in { << >>,
                         CreateSimpleMongodbToKafkaTopicPipeline("mc", "d", "c", "kc", "t") },
          dlq \in {NoValue, Str("dead-letters"), Str("")},
          dry_run \in BOOLEAN,
          outcome \in MongoshOutcomes :
        api' = [op |-> "process_temporary_pipeline",
                arg |-> [pipeline |-> pipeline, dlq |-> dlq, dry_run |-> dry_run],
                url |-> StreamProcessorUrl(UrlBase),
                runs |-> << [arguments |-> SpProcessArguments(pipeline, dlq, dry_run),
                             outcome |-> outcome] >>,
                ret |-> ExecuteStreamProcessingJavascript(outcome)]

\* ------------------------------------------------------------------------
\* Session tracker (text_to_processor/session_manager.py, SessionManager)
\* ------------------------------------------------------------------------
\* The clock advances in ticks; the wall-clock second is a whole number of
\* ticks.  MaxTime is the last tick, MaxEvents the number of calls made.
MaxTime == 4
MaxEvents == 4
TicksPerSecond == 2

VARIABLES
    now,        \* the clock, in ticks
    pointer,    \* current_session.txt: whether it exists, and its text
    sessions,   \* the sessions/ directory itself and the folders under it
    events      \* the calls made on the SessionManager, in order

sessVars == <<now, pointer, sessions, events>>

Digits == <<"0", "1", "2", "3", "4", "5", "6", "7", "8", "9">>
Digit(d) == Digits[d + 1]

\* strftime("%Y-%m-%d_%H-%M-%S") of the clock (line 54): the sub-second part
\* of the time is dropped.
Timestamp(t) ==
    LET second == t \div TicksPerSecond
    IN  "2025-01-20_14-30-" \o Digit(second \div 10) \o Digit(second % 10)

SessionNames == { Timestamp(t) : t \in 0..MaxTime }

\* sessions_dir / "" is sessions_dir itself.
Root == ""
FolderNames == SessionNames \cup {Root}

\* f"{next_num:03d}" (line 111)
Pad3(n) ==
    IF n < 10 THEN "00" \o Digit(n)
    ELSE IF n < 100 THEN "0" \o Digit(n \div 10) \o Digit(n % 10)
    ELSE Digit(n \div 100) \o Digit((n \div 10) % 10) \o Digit(n % 10)

Prefixes == {"config", "examine_data"}

\* Pointer texts with surrounding whitespace, and str.strip() on the texts
\* the pointer file can hold (line 40).
Blank == " "
WithNewline(name) == name \o "\n"
Strip(text) ==
    IF text = Blank THEN ""
    ELSE IF \E n \in SessionNames : text = WithNewline(n)
         THEN CHOOSE n \in SessionNames : text = WithNewline(n)
         ELSE text

\* A folder: whether it exists, the *.json files it holds other than
\* session_info.json, whether session_info.json is there, whether its text
\* is no longer valid JSON, and the config_count it records.
NoFolder ==
    [exists |-> FALSE, files |-> {}, info |-> FALSE, corrupt |-> FALSE,
     config_count |-> 0]
\* The sessions directory as __init__ makes it (line 26).
EmptyRoot ==
    [exists |-> TRUE, files |-> {}, info |-> FALSE, corrupt |-> FALSE,
     config_count |-> 0]

NoPointer == [exists |-> FALSE, text |-> ""]

SessionInit ==
    /\ now = 0
    /\ pointer = NoPointer
    /\ sessions = [s \in FolderNames |-> IF s = Root THEN EmptyRoot ELSE NoFolder]
    /\ events = << >>

\* _create_new_session (lines 52-78) at clock t on the disk (ptr, folders):
\* mkdir(exist_ok=True) keeps whatever the folder of that name holds, the
\* metadata record is written anew, the pointer is rewritten.
CreateNewSessionOn(ptr, folders, t) ==
    LET session_name == Timestamp(t)
    IN  [session |-> session_name,
         created |-> TRUE,
         pointer |-> [exists |-> TRUE, text |-> session_name],
         sessions |-> [folders EXCEPT ![session_name] =
                          [exists |-> TRUE, files |-> @.files, info |-> TRUE,
                           corrupt |-> FALSE, config_count |-> 0]]]

\* get_current_session (lines 28-50): the stripped text of the pointer when
\* the pointer file exists and sessions_dir / text exists, a new session
\* otherwise.
GetCurrentSessionOn(ptr, folders, t) ==
    IF /\ ptr.exists
       /\ Strip(ptr.text) \in FolderNames
       /\ folders[Strip(ptr.text)].exists
    THEN [session |-> Strip(ptr.text), created |-> FALSE,
          pointer |-> ptr, sessions |-> folders]
    ELSE CreateNewSessionOn(ptr, folders, t)

\* get_session_path (lines 84-87): sessions_dir / session_name.
GetSessionPath(session_name) == "sessions/" \o session_name

\* get_next_config_filename (lines 89-112), given the session folder's files.
NextNum(files) == Cardinality(files) + 1
GetNextConfigFilename(files, prefix) ==
    Pad3(NextNum(files)) \o "_" \o prefix \o ".json"

\* Variant: the record is rewritten with the count it already held.
UpdateSessionMetadata_CountKept(dir) ==
    IF dir.info /\ dir.corrupt
    THEN [folder |-> dir, raised |-> TRUE]
    ELSE [folder |-> [dir EXCEPT !.info = TRUE, !.corrupt = FALSE],
          raised |-> FALSE]

\* _update_session_metadata (lines 147-169) on the session folder: an existing
\* session_info.json is read with json.load, which raises on invalid JSON;
\* otherwise the record is rewritten with the number of config files.
UpdateSessionMetadata(dir) ==
    IF dir.info /\ dir.corrupt
    THEN [folder |-> dir, raised |-> TRUE]
    ELSE [folder |-> [dir EXCEPT !.info = TRUE, !.corrupt = FALSE,
                                 !.config_count = Cardinality(dir.files)],
          raised |-> FALSE]

\* What a call found: the pointer, and the folder it went on to use.
Snapshot(ptr, folders, s) ==
    [pointer |-> ptr, existed |-> folders[s].exists, files |-> folders[s].files]

Event(op, session, prefix, num, name, before, raised) ==
    [op |-> op, session |-> session, prefix |-> prefix, num |-> num,
     name |-> name, before |-> before, raised |-> raised]

\* The clock moves on.
Tick ==
    /\ now < MaxTime
    /\ now' = now + 1
    /\ UNCHANGED <<pointer, sessions, events>>

\* One call of get_current_session.
CallGetCurrentSession ==
    /\ Len(events) < MaxEvents
    /\ LET r == GetCurrentSessionOn(pointer, sessions, now)
       IN  /\ pointer' = r.pointer
           /\ sessions' = r.sessions
           /\ events' = Append(events,
                  Event("get_current_session", r.session, "", 0, "",
                        Snapshot(pointer, sessions, r.session), FALSE))
    /\ UNCHANGED now

\* One call of create_new_session (lines 80-82).
CallCreateNewSession ==
    /\ Len(events) < MaxEvents
    /\ LET r == CreateNewSessionOn(pointer, sessions, now)
       IN  /\ pointer' = r.pointer
           /\ sessions' = r.sessions
           /\ events' = Append(events,
                  Event("create_new_session", r.session, "", 0, "",
                        Snapshot(pointer, sessions, r.session), FALSE))
    /\ UNCHANGED now

\* One call of create_config_file (lines 114-145): resolve the session, pick
\* the file name, write the file, then _update_session_metadata (147-169).
CallCreateConfigFile ==
    /\ Len(events) < MaxEvents
    /\ \E prefix \in Prefixes :
          LET r == GetCurrentSessionOn(pointer, sessions, now)
              before == r.sessions[r.session].files
              filename == GetNextConfigFilename(before, prefix)
              written == [r.sessions[r.session] EXCEPT
                             !.files = before \cup {filename}]
              updated == UpdateSessionMetadata(written)
          IN  /\ pointer' = r.pointer
              /\ sessions' = [r.sessions EXCEPT ![r.session] = updated.folder]
              /\ events' = Append(events,
                     Event("create_config_file", r.session, prefix,
                           NextNum(before), filename,
                           Snapshot(pointer, sessions, r.session),
                           updated.raised))
    /\ UNCHANGED now

\* --- changes made to the directory from outside the SessionManager --------
\* The log entry of such a change.
External(op, s, name) ==
    Event(op, s, "", 0, name,
          [pointer |-> NoPointer, existed |-> FALSE, files |-> {}], FALSE)

\* An artifact file of a folder is deleted.
ExternalDeleteFile ==
    /\ Len(events) < MaxEvents
    /\ \E s \in FolderNames : \E f \in sessions[s].files :
          /\ sessions' = [sessions EXCEPT ![s].files = @ \ {f}]
          /\ events' = Append(events, External("delete_file", s, f))
    /\ UNCHANGED <<now, pointer>>

\* A session folder is deleted with everything in it.
ExternalDeleteSession ==
    /\ Len(events) < MaxEvents
    /\ \E s \in SessionNames :
          /\ sessions[s].exists
          /\ sessions' = [sessions EXCEPT ![s] = NoFolder]
          /\ events' = Append(events, External("delete_session", s, ""))
    /\ UNCHANGED <<now, pointer>>

\* The text of a session_info.json is damaged (truncated, edited by hand).
ExternalCorruptMetadata ==
    /\ Len(events) < MaxEvents
    /\ \E s \in SessionNames :
          /\ sessions[s].exists /\ sessions[s].info /\ ~sessions[s].corrupt
          /\ sessions' = [sessions EXCEPT ![s].corrupt = TRUE]
          /\ events' = Append(events, External("corrupt_metadata", s, ""))
    /\ UNCHANGED <<now, pointer>>

\* The pointer file is emptied, blanked, or saved again with a newline.
ExternalWritePointer ==
    /\ Len(events) < MaxEvents
    /\ pointer.exists
    /\ \E text \in {"", Blank}
                  \cup (IF pointer.text \in SessionNames
                        THEN {WithNewline(pointer.text)} ELSE {}) :
          /\ pointer' = [exists |-> TRUE, text |-> text]
          /\ events' = Append(events, External("write_pointer", "", text))
    /\ UNCHANGED <<now, sessions>>

\* ------------------------------------------------------------------------
\* Specifications
\* ------------------------------------------------------------------------
vars == <<direction, pc, authenticated, folder, json_files,
          first_connector_config, mongodb_connection, kafka_connection,
          idx, counts, calls, rerun, remote, provLog, fsys, lastRun, api,
          now, pointer, sessions, events>>

\* Everything but the state of the batch run.
otherVars == <<provVars, apiVars, sessVars>>

\* One batch run.
Init == BatchInit /\ ProvIdle /\ ApiIdle /\ SessionInit

Next ==
    \/ AuthGate /\ UNCHANGED otherVars
    \/ Discover /\ UNCHANGED otherVars
    \/ SelectSeed /\ UNCHANGED otherVars
    \/ ProvisionMongo /\ UNCHANGED otherVars
    \/ ProvisionKafka /\ UNCHANGED otherVars
    \/ SkipFile /\ UNCHANGED otherVars
    \/ SourceFile /\ UNCHANGED otherVars
    \/ SinkFile /\ UNCHANGED otherVars
    \/ CallCreateStreamProcessor /\ UNCHANGED otherVars
    \/ Summary /\ UNCHANGED otherVars

Spec == Init /\ [][Next]_vars

\* A batch run followed by the run of the same batch without malformed files.
NextIso ==
    \/ Next
    \/ Rerun /\ UNCHANGED otherVars

SpecIso == Init /\ [][NextIso]_vars

\* One batch run with the auth gate taken step by step.  Every step of the
\* program itself is taken once it can be: a tool run or an HTTP request
\* ends or runs into its timeout (10, 30, 60, 120 seconds), everything else
\* is computation.  The answer to the prompt is the user's to give, and
\* nothing is assumed about it.
ProgramStep ==
    \/ AuthWhoami /\ UNCHANGED otherVars
    \/ AuthLogin /\ UNCHANGED otherVars
    \/ Discover /\ UNCHANGED otherVars
    \/ SelectSeed /\ UNCHANGED otherVars
    \/ ProvisionMongo /\ UNCHANGED otherVars
    \/ ProvisionKafka /\ UNCHANGED otherVars
    \/ SkipFile /\ UNCHANGED otherVars
    \/ SourceFile /\ UNCHANGED otherVars
    \/ SinkFile /\ UNCHANGED otherVars
    \/ CallCreateStreamProcessor /\ UNCHANGED otherVars
    \/ Summary /\ UNCHANGED otherVars

NextLive ==
    \/ ProgramStep
    \/ AuthPrompt /\ UNCHANGED otherVars

SpecLive == Init /\ [][NextLive]_vars /\ WF_vars(ProgramStep)

\* Repeated provisioner calls against one remote and one local file system.
InitProv ==
    BatchInit /\ direction = "source" /\ ProvInit /\ ApiIdle /\ SessionInit

NextProv ==
    \/ CallCreateMongodbConnection /\ UNCHANGED <<apiVars, sessVars>>
    \/ CallCreateKafkaConnection /\ UNCHANGED <<apiVars, sessVars>>

SpecProv == InitProv /\ [][NextProv]_vars

\* Single calls of the functions, on every input of their sample domains.
InitApi == BatchInit /\ direction = "source" /\ ProvIdle /\ ApiIdle /\ SessionInit

NextApi ==
    \/ CallCreateTopic /\ UNCHANGED <<batchVars, provVars, sessVars>>
    \/ CallExecuteStreamProcessingJavascript /\ UNCHANGED <<batchVars, provVars, sessVars>>
    \/ CallCreateStreamProcessorDirect /\ UNCHANGED <<batchVars, provVars, sessVars>>
    \/ CallValidateMainConfig /\ UNCHANGED <<batchVars, provVars, sessVars>>
    \/ CallMain /\ UNCHANGED <<batchVars, provVars, sessVars>>
    \/ CallCheckAtlasAuthWithLogin /\ UNCHANGED <<batchVars, provVars, sessVars>>
    \/ CallProcessTemporaryPipeline /\ UNCHANGED <<batchVars, provVars, sessVars>>
    \/ CallCreateSimpleMongodbToKafkaTopicPipeline
          /\ UNCHANGED <<batchVars, provVars, sessVars>>
    \/ CallCreateSimpleKafkaTopicToMongodbPipeline
          /\ UNCHANGED <<batchVars, provVars, sessVars>>

SpecApi == InitApi /\ [][NextApi]_vars

\* Calls on one SessionManager while the clock runs, nothing else touching
\* its directory.
InitSession == BatchInit /\ direction = "source" /\ ProvIdle /\ ApiIdle /\ SessionInit

NextSession ==
    \/ Tick /\ UNCHANGED <<batchVars, provVars, apiVars>>
    \/ CallGetCurrentSession /\ UNCHANGED <<batchVars, provVars, apiVars>>
    \/ CallCreateNewSession /\ UNCHANGED <<batchVars, provVars, apiVars>>
    \/ CallCreateConfigFile /\ UNCHANGED <<batchVars, provVars, apiVars>>

SpecSession == InitSession /\ [][NextSession]_vars

\* The same calls, with the directory also changed from outside.
NextSessionExt ==
    \/ NextSession
    \/ ExternalDeleteFile /\ UNCHANGED <<batchVars, provVars, apiVars>>
    \/ ExternalDeleteSession /\ UNCHANGED <<batchVars, provVars, apiVars>>
    \/ ExternalCorruptMetadata /\ UNCHANGED <<batchVars, provVars, apiVars>>
    \/ ExternalWritePointer /\ UNCHANGED <<batchVars, provVars, apiVars>>

SpecSessionExt == InitSession /\ [][NextSessionExt]_vars

\* ------------------------------------------------------------------------
\* Vocabulary of the properties
\* ------------------------------------------------------------------------
SharedOps == {"create_mongodb_connection", "create_kafka_connection"}
PerFileOps == {"create_topic", "create_stream_processor"}

CallsOf(op) == {n \in 1..Len(calls) : calls[n].op = op}

\* The run got past the gate and past discovery and finished shared provisioning.
SharedProvisioningDone == pc \in {"loop", "sp_call", "done", "raised"}

\* Both shared connections are in a created-or-reused state.
GateOpen == mongodb_connection.success /\ kafka_connection.success

\* A call of create_stream_processor was made for file i.
Attempted(i) ==
    \E n \in CallsOf("create_stream_processor") : calls[n].file = i

\* The per-file loop is through with file i.
DealtWith(i) == i < idx \/ (i = idx /\ pc = "raised")

\* File i parses and passes connector validation.
ParsesAndValidates(i) ==
    /\ json_files[i].parses
    /\ ValidateConnectorConfig(direction, Dict(json_files[i].dict))

\* C1: when the auth check fails the run has returned and no provisioning
\* call (database connection, queue connection, topic, processor) was made.
C1_AuthFailureMakesNoCall ==
    authenticated = "no" => (pc = "returned" /\ calls = << >>)

C1_Witness == authenticated = "no" /\ pc = "returned" /\ folder = "unknown"

\* C2 as stated: for every file the loop is through with, processor
\* provisioning was attempted if and only if both shared connections are
\* created or reused, whatever the file's own validity.
C2_AttemptedIffGateOpen ==
    SharedProvisioningDone =>
        \A i \in 1..Len(json_files) :
            i < idx => (Attempted(i) <=> GateOpen)

\* C2 amended: processor provisioning is attempted for a file only if both
\* shared connections are created or reused; and for every file the loop is
\* through with, it was attempted exactly when moreover the file passed its
\* own checks and, in a source batch, its topic creation returned true.
C2_AttemptedOnlyIfGateOpen ==
    \A i \in 1..Len(json_files) :
        /\ Attempted(i) => GateOpen
        /\ DealtWith(i) =>
              (Attempted(i) <=>
                  /\ GateOpen
                  /\ ~Skipped(direction, json_files[i])
                  /\ direction = "source" =>
                        ResultOf(calls, "create_topic", i) = "ok")

C2_Witness ==
    /\ \E i \in 1..Len(json_files) : Attempted(i) /\ GateOpen
    /\ \E i \in 1..Len(json_files) : DealtWith(i) /\ ~Attempted(i)

\* C3: no call is ever made for a malformed file, and when the batch is run
\* again without its malformed files, against the same answers, every
\* remaining file gets the outcome it had in the full batch.
C3_FailureIsolation ==
    /\ \A n \in 1..Len(calls) :
          calls[n].file > 0 => ~Malformed(direction, json_files[calls[n].file])
    /\ (rerun.on /\ pc \in {"returned", "done", "raised"}) =>
          [k \in 1..Len(rerun.files) |-> Outcome(calls, k)] = rerun.outcomes

C3_Witness ==
    /\ rerun.on
    /\ pc \in {"done", "raised"}
    /\ rerun.removed > 0
    /\ \E k \in 1..Len(rerun.outcomes) : rerun.outcomes[k].topic # "none"
    /\ \E k \in 1..Len(rerun.outcomes) : rerun.outcomes[k].processor = "none"

\* C4 as stated: a run that passed the auth gate with at least one file only
\* ever stops at the summary, after the loop went through every file; no
\* exception escapes.
C4_RunReachesSummary ==
    (authenticated = "yes" /\ Len(json_files) > 0
        /\ pc \notin {"seed", "mongo", "kafka", "loop", "sp_call"})
    => (pc = "done" /\ idx = Len(json_files) + 1)

\* C5: every per-file call (topic, processor) comes after the shared calls:
\* no shared call follows a per-file call, and before the first per-file call
\* the database call, and the queue call when a seed exists, have returned.
C5_SharedBeforePerFile ==
    \A n \in 1..Len(calls) :
        calls[n].op \in PerFileOps =>
            /\ \A m \in (n + 1)..Len(calls) : calls[m].op \notin SharedOps
            /\ \E m \in 1..(n - 1) : calls[m].op = "create_mongodb_connection"
            /\ (\E i \in 1..Len(json_files) : ParsesAndValidates(i)) =>
                  \E m \in 1..(n - 1) : calls[m].op = "create_kafka_connection"

C5_Witness ==
    /\ Len(calls) >= 4
    /\ calls[1].op = "create_mongodb_connection"
    /\ calls[2].op = "create_kafka_connection"
    /\ calls[3].op \in PerFileOps
    /\ calls[4].op \in PerFileOps

\* C6: once shared provisioning is over, the database connection was
\* provisioned exactly once, with the role of the batch's direction, and the
\* queue connection exactly once when a seed exists and not at all otherwise;
\* neither is ever provisioned more than once.
C6_SharedProvisionedOnce ==
    /\ Cardinality(CallsOf("create_mongodb_connection")) <= 1
    /\ Cardinality(CallsOf("create_kafka_connection")) <= 1
    /\ \A n \in CallsOf("create_mongodb_connection") :
          calls[n].a = (IF direction = "source" THEN "readAnyDatabase"
                        ELSE "readWriteAnyDatabase")
    /\ SharedProvisioningDone =>
          /\ Cardinality(CallsOf("create_mongodb_connection")) = 1
          /\ Cardinality(CallsOf("create_kafka_connection")) =
                (IF \E i \in 1..Len(json_files) : ParsesAndValidates(i) THEN 1 ELSE 0)

C6_Witness ==
    /\ pc = "done"
    /\ direction = "sink"
    /\ Len(json_files) = MaxFiles
    /\ Cardinality(CallsOf("create_mongodb_connection")) = 1
    /\ Cardinality(CallsOf("create_kafka_connection")) = 1

\* C7: the key and secret of the queue-connection call are those of the first
\* file of the listing that parses and validates.
C7_SeedIsFirstValidFile ==
    \A n \in CallsOf("create_kafka_connection") :
        \E i \in 1..Len(json_files) :
            /\ ParsesAndValidates(i)
            /\ \A j \in 1..(i - 1) : ~ParsesAndValidates(j)
            /\ calls[n].a = json_files[i].dict["kafka.api.key"].s
            /\ calls[n].b = json_files[i].dict["kafka.api.secret"].s

C7_Witness ==
    /\ CallsOf("create_kafka_connection") # {}
    /\ Len(json_files) >= 3
    /\ ~ParsesAndValidates(1)
    /\ ParsesAndValidates(2)
    /\ ParsesAndValidates(3)
    /\ json_files[3].dict["kafka.api.key"] # json_files[2].dict["kafka.api.key"]

\* C8: when no discovered file parses and validates, the queue connection
\* is never provisioned and no processor is provisioned, while the database
\* connection is still provisioned exactly once.
C8_NoSeedNoQueueConnection ==
    (Len(json_files) > 0 /\ \A i \in 1..Len(json_files) : ~ParsesAndValidates(i)) =>
        /\ CallsOf("create_kafka_connection") = {}
        /\ CallsOf("create_stream_processor") = {}
        /\ SharedProvisioningDone =>
              Cardinality(CallsOf("create_mongodb_connection")) = 1

C8_Witness ==
    /\ pc = "done"
    /\ Len(json_files) >= 2
    /\ \A i \in 1..Len(json_files) : ~ParsesAndValidates(i)
    /\ Len(calls) = 1

\* A configuration error of a connector file: malformed JSON, a missing
\* required field, an empty topic list, an offset-reset policy other than
\* earliest or latest.
ConfigurationError(dir, file) ==
    \/ Malformed(dir, file)
    \/ /\ dir = "sink"
       /\ \/ file.dict["topics"].t = "list" /\ Len(file.dict["topics"].l) = 0
          \/ /\ OffsetResetKey \in DOMAIN file.dict
             /\ file.dict[OffsetResetKey] \notin {Str("earliest"), Str("latest")}

\* C9 as stated: a file with a configuration error is never the seed whose
\* credentials provision the queue connection, and no topic or processor call
\* is ever made for it.
C9_ConfigErrorsBeforeExternalCalls ==
    /\ \A n \in CallsOf("create_kafka_connection") :
          \A i \in 1..Len(json_files) :
              ConfigurationError(direction, json_files[i]) =>
                  first_connector_config # LoadJsonFile(json_files[i])
    /\ \A n \in 1..Len(calls) :
          calls[n].file > 0 =>
              ~ConfigurationError(direction, json_files[calls[n].file])

\* C10: of two calls of the same provisioner with the same parameters that
\* the remote both answered, both report success and the later one reports
\* wasCreated = false.
C10_ProvisioningIdempotent ==
    \A i \in 1..Len(provLog) : \A j \in (i + 1)..Len(provLog) :
        (/\ provLog[i].provisioner = provLog[j].provisioner
         /\ provLog[i].name = provLog[j].name
         /\ provLog[i].param = provLog[j].param
         /\ provLog[i].answered
         /\ provLog[j].answered)
        => (/\ provLog[i].res.success
            /\ provLog[j].res.success
            /\ ~provLog[j].res.wasCreated)

C10_Witness ==
    /\ Len(provLog) >= 2
    /\ provLog[1].provisioner = provLog[2].provisioner
    /\ provLog[1].name = provLog[2].name
    /\ provLog[1].param = provLog[2].param
    /\ provLog[1].answered /\ provLog[2].answered
    /\ provLog[1].res = Result(TRUE, TRUE)
    /\ provLog[2].res = Result(TRUE, FALSE)

\* The stderr texts of the samples that contain "already exists" or
\* "duplicate" in some letter case.
MarkedTexts == {ErrConnectionAlreadyExists, ErrAlreadyExistsUpper, ErrDuplicateKey}

\* The latest entry of the provisioner log.
LastEntry == provLog[Len(provLog)]

\* The transient path a logged provisioner call uses.
PathOf(entry) ==
    IF entry.provisioner = "create_mongodb_connection"
    THEN MongoTempFile
    ELSE KafkaTempFile(entry.name)

\* C11: for both command-line-backed provisioners, a call whose tool run
\* ended with an exit status returns (true, true) on status 0, (true, false)
\* on a non-zero status whose stderr holds "already exists" or "duplicate"
\* in any letter case, (false, false) on a non-zero status without either;
\* and no call reports wasCreated without success.
C11_ResultIsFunctionOfOutcome ==
    /\ (Len(provLog) > 0 /\ lastRun.outcome.kind = "exit") =>
          /\ ~LastEntry.raised
          /\ LastEntry.res =
                IF lastRun.outcome.returncode = 0 THEN Result(TRUE, TRUE)
                ELSE IF lastRun.outcome.stderr \in MarkedTexts THEN Result(TRUE, FALSE)
                ELSE Result(FALSE, FALSE)
    /\ \A n \in 1..Len(provLog) :
          provLog[n].res.wasCreated => provLog[n].res.success

C11_Witness ==
    /\ Len(provLog) = 2
    /\ provLog[1].provisioner = "create_mongodb_connection"
    /\ provLog[1].res = Result(FALSE, FALSE)
    /\ ~provLog[1].raised
    /\ provLog[2].provisioner = "create_kafka_connection"
    /\ provLog[2].res = Result(TRUE, FALSE)
    /\ lastRun.outcome = Exit(1, ErrAlreadyExistsUpper)

\* C12 as stated: a timeout of the tool, and an exception raised while
\* writing the transient file or invoking the tool, make the call return
\* (false, false); and no provisioner call ever raises to its caller.
C12_FailuresCollapseNeverRaise ==
    /\ \A n \in 1..Len(provLog) : ~provLog[n].raised
    /\ (Len(provLog) > 0 /\ lastRun.outcome.kind \in {"timeout", "exception"}) =>
          LastEntry.res = Result(FALSE, FALSE)

\* C13: after every provisioner call that has returned, the transient path
\* of that call holds nothing, whichever way the call ended; and at no time
\* between two calls does any transient path hold a config a call wrote.
C13_TransientFileRemoved ==
    /\ \A n \in 1..Len(provLog) :
          ~provLog[n].raised => fsys[PathOf(provLog[n])] = Absent
    /\ \A p \in TempPaths : fsys[p] # ConfigFile

C13_Witness ==
    /\ Len(provLog) = 2
    /\ ~provLog[1].raised /\ provLog[1].res.success
    /\ ~provLog[2].raised
    /\ PathOf(provLog[1]) # PathOf(provLog[2])
    /\ lastRun.wrote
    /\ lastRun.outcome.kind = "timeout"
    /\ \E p \in TempPaths : fsys[p] = UserFile

\* C14 as stated: create_topic returns true exactly when the response status
\* is 201, or 409, or is not a 2xx status and the body is JSON with
\* error_code 40002; on every other response and on a network error it
\* returns false.
C14_TopicTrueExactlyWhen ==
    api.op = "create_topic" =>
        (api.ret <=>
            /\ api.arg.kind = "response"
            /\ \/ api.arg.status = 201
               \/ api.arg.status = 409
               \/ /\ ~(api.arg.status >= 200 /\ api.arg.status < 300)
                  /\ api.arg.json
                  /\ api.arg.error_code = 40002)

\* C15: create_stream_processor returns true exactly when its one mongosh run
\* exited with status 0 or wrote a stderr holding "already exists" or
\* "duplicate" in any letter case; a run that timed out or raised gives
\* false; and each call makes exactly one run.
C15_ProcessorTrueIffSuccessOrMarker ==
    api.op = "create_stream_processor" =>
        /\ Len(api.runs) = 1
        /\ api.ret <=>
              /\ api.runs[1].kind = "exit"
              /\ \/ api.runs[1].returncode = 0
                 \/ api.runs[1].stderr \in MarkedTexts
        /\ api.runs[1].kind \in {"timeout", "exception"} => ~api.ret

C15_Witness ==
    /\ api.op = "create_stream_processor"
    /\ api.runs = <<Exit(1, ErrAlreadyExistsUpper)>>
    /\ api.ret

\* C16 as stated: whatever number of trailing '/' the given stream-engine
\* URL has, the URL placed in the mongosh command ends with exactly one '/'.
C16_UrlEndsWithOneSlash ==
    api.op = "execute_stream_processing_javascript" =>
        /\ EndsWith(api.url, "/")
        /\ ~EndsWith(SubSeq(api.url, 1, Len(api.url) - 1), "/")

C18_AcceptedOnlyIfNonEmpty ==
    (\/ api.op = "validate_main_config" /\ api.ret = TRUE
     \/ api.op = "main" /\ api.ret = "process_connector_configs")
    => \A k \in DocumentedFields :
          /\ k \in DOMAIN api.arg.dict
          /\ api.arg.dict[k] # Str("")

\* C19 as stated: in a sink batch a processor call is made for a file only
\* if its topics value is a string or a non-empty list and its offset-reset
\* policy is absent or one of earliest, latest.
C19_SinkProcessorOnlyForValidTopicsAndOffset ==
    direction = "sink" =>
        \A i \in 1..Len(json_files) :
            Attempted(i) =>
                /\ "topics" \in DOMAIN json_files[i].dict
                /\ \/ json_files[i].dict["topics"].t = "str"
                   \/ /\ json_files[i].dict["topics"].t = "list"
                      /\ Len(json_files[i].dict["topics"].l) > 0
                /\ \/ OffsetResetKey \notin DOMAIN json_files[i].dict
                   \/ json_files[i].dict[OffsetResetKey]
                          \in {Str("earliest"), Str("latest")}

\* The calls of create_config_file among the first n events that wrote into
\* the session named s.
ConfigFilesBefore(n, s) ==
    {m \in 1..(n - 1) : events[m].op = "create_config_file" /\ events[m].session = s}

\* C20 as stated: the k-th create_config_file of a session produces the file
\* numbered k, whatever the prefixes; and the first create_config_file after
\* a create_new_session produces the file numbered 001.
C20_NumberingPerSession ==
    \A n \in 1..Len(events) :
        events[n].op = "create_config_file" =>
            /\ events[n].num = Cardinality(ConfigFilesBefore(n, events[n].session)) + 1
            /\ events[n].name =
                  Pad3(events[n].num) \o "_" \o events[n].prefix \o ".json"
            /\ (n > 1 /\ events[n - 1].op = "create_new_session") =>
                  events[n].name = "001_" \o events[n].prefix \o ".json"

\* The files of a set that carry the number k, whatever their prefix.
Numbered(files, k) ==
    {f \in files : \E p \in Prefixes : f = Pad3(k) \o "_" \o p \o ".json"}

\* The last call or outside change, once there is one.
LastEvent == events[Len(events)]

\* C21 as stated: whatever calls of create_config_file and deletions of
\* artifact files came before, the number given to a new artifact is not the
\* number of an artifact file still present in the session folder.
C21_NumberNeverReusedWhileFilesExist ==
    \A n \in 1..Len(events) :
        events[n].op = "create_config_file" =>
            Numbered(events[n].before.files, events[n].num) = {}

\* C22 as stated: once get_current_session has returned, the pointer file
\* names a session, the folder of that session exists, and the returned id
\* is the text of the pointer file.
C22_PointerNamesReturnedSession ==
    (Len(events) > 0 /\ LastEvent.op = "get_current_session") =>
        /\ pointer.exists
        /\ pointer.text \in SessionNames
        /\ sessions[pointer.text].exists
        /\ LastEvent.session = pointer.text

\* C23 as stated: every create_new_session returns a session that did not
\* exist before the call and holds no artifacts, with a metadata count of 0,
\* and makes it the current session.
C23_ForcedSessionIsFresh ==
    (Len(events) > 0 /\ LastEvent.op = "create_new_session") =>
        /\ ~LastEvent.before.existed
        /\ sessions[LastEvent.session].files = {}
        /\ sessions[LastEvent.session].config_count = 0
        /\ pointer = [exists |-> TRUE, text |-> LastEvent.session]

\* C24 as stated: create_config_file on a session whose metadata record is
\* corrupt writes the artifact, returns, and leaves a fresh metadata record;
\* no parse error reaches the caller.
C24_CorruptMetadataOverwritten ==
    (Len(events) > 0 /\ LastEvent.op = "create_config_file") =>
        /\ ~LastEvent.raised
        /\ LastEvent.name \in sessions[LastEvent.session].files
        /\ sessions[LastEvent.session].info
        /\ ~sessions[LastEvent.session].corrupt

\* C25: after every create_config_file that returned, the config_count of
\* the session's metadata record is the number of JSON files in the session
\* folder other than session_info.json.
C25_CountMatchesFiles ==
    (/\ Len(events) > 0
     /\ LastEvent.op = "create_config_file"
     /\ ~LastEvent.raised) =>
        sessions[LastEvent.session].config_count =
            Cardinality(sessions[LastEvent.session].files)

\* A create_config_file returned in a folder whose earlier files were partly
\* deleted, so that the count differs from the number of calls made.
C25_Witness ==
    /\ Len(events) > 0
    /\ LastEvent.op = "create_config_file"
    /\ ~LastEvent.raised
    /\ \E n \in 1..Len(events) :
          events[n].op = "delete_file" /\ events[n].session = LastEvent.session
    /\ sessions[LastEvent.session].config_count = 2

\* The stages of the pipeline a sink-builder call returned.
SinkReadStage == api.ret[1]["$source"]
SinkWriteStage == api.ret[2]["$merge"]

\* What every sink-builder call returns, apart from the config entry: two
\* stages, the read stage on the queue connection with the topics as given,
\* the write stage into the given database and collection.
SinkPipelineShape ==
    /\ Len(api.ret) = 2
    /\ DOMAIN api.ret[1] = {"$source"}
    /\ DOMAIN api.ret[2] = {"$merge"}
    /\ SinkReadStage["connectionName"] = Str(api.arg.kafka_connection_name)
    /\ SinkReadStage["topic"] = api.arg.topics
    /\ DOMAIN SinkReadStage \subseteq {"connectionName", "topic", "config"}
    /\ SinkWriteStage =
          ("into" :> [connectionName |-> api.arg.mongodb_connection_name,
                      db |-> api.arg.database,
                      coll |-> api.arg.collection])
    /\ "config" \in DOMAIN SinkReadStage =>
          SinkReadStage["config"] =
              ("auto_offset_reset" :> api.arg.auto_offset_reset)

C27_SourcePipelineSubmitted ==
    direction = "source" =>
        \A n \in 1..Len(calls) :
            /\ calls[n].op = "create_topic" =>
                  calls[n].a = TopicName(LoadJsonFile(json_files[calls[n].file]))
            /\ calls[n].op = "create_stream_processor" =>
                  calls[n].res # "TypeError"

\* The files whose processor provisioning returned true.
ProcessorSucceeded ==
    { calls[n].file : n \in { k \in CallsOf("create_stream_processor") :
                                 calls[k].res = "ok" } }

\* C28: at the summary, the processor count reported is the number of
\* discovered files whose processor provisioning returned true, between 0
\* and the number of discovered files; no skipped file is among them; and
\* each shared connection is reported as created, reused or failed according
\* to the pair (success, wasCreated) held for it.
C28_SummaryCounts ==
    pc = "done" =>
        /\ SummaryReport.processors = Cardinality(ProcessorSucceeded)
        /\ SummaryReport.processors \in 0..SummaryReport.total
        /\ SummaryReport.total = Len(json_files)
        /\ \A i \in 1..Len(json_files) :
              (Skipped(direction, json_files[i]) \/ ~GateOpen) =>
                  i \notin ProcessorSucceeded
        /\ \A c \in {"mongodb", "kafka"} :
              LET r == IF c = "mongodb" THEN mongodb_connection ELSE kafka_connection
              IN  /\ SummaryReport[c] \in {"created", "reused", "failed"}
                  /\ SummaryReport[c] = "created" <=> (r.success /\ r.wasCreated)
                  /\ SummaryReport[c] = "reused" <=> (r.success /\ ~r.wasCreated)
                  /\ SummaryReport[c] = "failed" <=> ~r.success

\* A summary after a listing of several files, some of them skipped, with
\* the database connection reused and the queue connection failed.
C28_Witness ==
    /\ pc = "done"
    /\ Len(json_files) >= 2
    /\ \E i \in 1..Len(json_files) : Skipped(direction, json_files[i])
    /\ \E i \in 1..Len(json_files) : ~Skipped(direction, json_files[i])
    /\ mongodb_connection.success /\ ~mongodb_connection.wasCreated
    /\ ~kafka_connection.success
    /\ SummaryReport.processors = 0

\* A run that did everything it was asked to: nothing to do in an empty
\* folder, or both shared connections usable and a processor for every file.
FullSuccess ==
    /\ authenticated = "yes"
    /\ folder = "dir"
    /\ \/ Len(json_files) = 0
       \/ /\ pc = "done"
          /\ mongodb_connection.success
          /\ kafka_connection.success
          /\ counts.stream_processor_success_count = Len(json_files)

\* C29 as stated: a driver that is over exited 0 only if the run was a full
\* success, and exited 1 if any connector file failed to load or validate.
C29_ExitZeroOnlyOnFullSuccess ==
    pc \in {"returned", "done", "raised"} =>
        /\ ExitCode = 0 => FullSuccess
        /\ (\E i \in 1..Len(json_files) : Skipped(direction, json_files[i])) =>
              ExitCode = 1

\* C30 as stated: every batch run comes to an end -- it returns from
\* process_connector_configs, at the latest by leaving it with an exception
\* -- whenever every tool run and HTTP request ends or stalls.
C30_EveryRunTerminates == <>(pc \in {"returned", "done", "raised"})

\* What the user can type to consent to the login: nothing, y or yes, in
\* either case and with or without blanks around it.
Consent == {"", " ", "y", "Y", "yes", " Yes "}

\* How often a tool was run in the call observed.
RunCount(tool) == Cardinality({k \in 1..Len(api.runs) : api.runs[k] = tool})

\* C31: check_atlas_auth_with_login returns true exactly when whoami exits 0,
\* or whoami exits non-zero, the user consents and login exits 0; whoami runs
\* exactly once, first; login runs at most once and only after a failed
\* whoami and consent; an exception in whoami, or an interrupt at the
\* prompt, gives false without a login run.
C31_AuthTrueIffWhoamiOrLogin ==
    api.op = "check_atlas_auth_with_login" =>
        /\ api.ret <=>
              \/ api.arg.whoami = "exit0"
              \/ /\ api.arg.whoami = "exit1"
                 /\ api.arg.typed \in Consent
                 /\ api.arg.login = "exit0"
        /\ RunCount("whoami") = 1
        /\ api.runs[1] = "whoami"
        /\ RunCount("login") <= 1
        /\ RunCount("login") = 1 =>
              (api.arg.whoami = "exit1" /\ api.arg.typed \in Consent)
        /\ (\/ api.arg.whoami = "exception"
            \/ api.arg.whoami = "exit1" /\ api.arg.typed = "interrupt") =>
              (~api.ret /\ RunCount("login") = 0)

\* whoami exited non-zero, the user typed " Yes ", login exited 0: the call
\* ran both tools and returned true.
C31_Witness ==
    /\ api.op = "check_atlas_auth_with_login"
    /\ api.arg.whoami = "exit1"
    /\ api.arg.typed = " Yes "
    /\ api.arg.login = "exit0"
    /\ api.runs = <<"whoami", "login">>
    /\ api.ret

\* The calls of op made for file i.
CallsFor(op, i) == {n \in CallsOf(op) : calls[n].file = i}

\* C32: within one batch run each discovered file gets at most one
\* stream-processor call and at most one topic call, and each shared
\* connection at most one provisioning call, whatever the calls returned.
C32_NoRetry ==
    /\ \A op \in PerFileOps : \A i \in 1..Len(json_files) :
          Cardinality(CallsFor(op, i)) <= 1
    /\ \A op \in SharedOps : Cardinality(CallsOf(op)) <= 1
    /\ \A n \in 1..Len(calls) :
          calls[n].op \in PerFileOps => calls[n].file \in 1..Len(json_files)

\* A source run that went through all its files after the database
\* connection failed and a topic creation failed: each was tried once.
C32_Witness ==
    /\ pc = "done"
    /\ direction = "source"
    /\ \E n \in CallsOf("create_mongodb_connection") : calls[n].res = "failed"
    /\ \E i \in 1..Len(json_files) :
          /\ Cardinality(CallsFor("create_topic", i)) = 1
          /\ \A n \in CallsFor("create_topic", i) : calls[n].res = "fail"

\* C33: when the folder does not exist, is not a directory, or holds no
\* .json file, the run returns after the auth gate without any provisioning
\* call, and the driver exits 0.
C33_EmptyDiscoveryIsNoOp ==
    (/\ authenticated = "yes"
     /\ pc \notin {"start", "discover"}
     /\ (folder # "dir" \/ Len(json_files) = 0)) =>
        /\ pc = "returned"
        /\ calls = << >>
        /\ ExitCode = 0

\* The gate was passed and the folder is a directory without .json files.
C33_Witness ==
    /\ authenticated = "yes"
    /\ folder = "dir"
    /\ json_files = << >>
    /\ pc = "returned"
    /\ calls = << >>

\* The arguments of sp.process in the one command a process_temporary_pipeline
\* call had executed.
SpProcessCall == api.runs[1].arguments

\* C34: process_temporary_pipeline passes an options object next to the
\* pipeline exactly when a dead-letter target was given or dry-run is true;
\* the object has the key dlq exactly when a target was given and the key
\* dryRun (true) exactly when dry-run is true; the command goes through one
\* call of execute_stream_processing_javascript, whose result is returned.
C34_OptionsIffDlqOrDryRun ==
    api.op = "process_temporary_pipeline" =>
        /\ Len(api.runs) = 1
        /\ api.ret = ExecuteStreamProcessingJavascript(api.runs[1].outcome)
        /\ SpProcessCall[1] = api.arg.pipeline
        /\ Len(SpProcessCall) = 2 <=> (api.arg.dlq # NoValue \/ api.arg.dry_run)
        /\ Len(SpProcessCall) \in {1, 2}
        /\ Len(SpProcessCall) = 2 =>
              /\ "dlq" \in DOMAIN SpProcessCall[2] <=> api.arg.dlq # NoValue
              /\ "dryRun" \in DOMAIN SpProcessCall[2] <=> api.arg.dry_run
              /\ DOMAIN SpProcessCall[2] \subseteq {"dlq", "dryRun"}
              /\ "dlq" \in DOMAIN SpProcessCall[2] =>
                    SpProcessCall[2]["dlq"] = api.arg.dlq
              /\ "dryRun" \in DOMAIN SpProcessCall[2] =>
                    SpProcessCall[2]["dryRun"] = Str("true")

\* A call with a dead-letter target and without dry-run: the command carried
\* the pipeline and an options object holding dlq only.
C34_Witness ==
    /\ api.op = "process_temporary_pipeline"
    /\ api.arg.dlq = Str("dead-letters")
    /\ ~api.arg.dry_run
    /\ Len(api.arg.pipeline) = 2
    /\ Len(SpProcessCall) = 2
    /\ DOMAIN SpProcessCall[2] = {"dlq"}

\* C35 as stated: after shared provisioning each shared connection still has
\* the state its provisioner returned, and in a sink batch that is over
\* either every file that passes its own checks got a processor provisioning
\* call, or none did.
C35_GateUniform ==
    /\ SharedProvisioningDone =>
          /\ \A n \in CallsOf("create_mongodb_connection") :
                calls[n].res = ResultName(mongodb_connection)
          /\ \A n \in CallsOf("create_kafka_connection") :
                calls[n].res = ResultName(kafka_connection)
    /\ (direction = "sink" /\ pc \in {"returned", "done", "raised"}) =>
          \/ \A i \in 1..Len(json_files) :
                ~Skipped(direction, json_files[i]) => Attempted(i)
          \/ \A i \in 1..Len(json_files) :
                ~Skipped(direction, json_files[i]) => ~Attempted(i)

\* C36 as stated: in a source batch that is over, every file that loads and
\* validates had exactly one topic creation call, whatever the state of the
\* shared connections, and every processor provisioning call for a file
\* comes after a topic creation call for that file that returned true.
C36_TopicOncePerValidFile ==
    direction = "source" =>
        /\ pc \in {"returned", "done", "raised"} =>
              \A i \in 1..Len(json_files) :
                  ParsesAndValidates(i) =>
                      Cardinality(CallsFor("create_topic", i)) = 1
        /\ \A n \in CallsOf("create_stream_processor") :
              \E m \in 1..(n - 1) :
                  /\ calls[m].op = "create_topic"
                  /\ calls[m].file = calls[n].file
                  /\ calls[m].res = "ok"

\* The calls that resolve the session folder through get_session_path.
ResolvingOps == {"get_current_session", "create_new_session", "create_config_file"}

\* C37 as stated: whatever the pointer file holds, the folder a call
\* resolves is a direct child of the sessions directory and holds a metadata
\* record, never the sessions directory itself; no artifact is ever written
\* into the sessions directory.
C37_SessionPathIsSessionFolder ==
    /\ (Len(events) > 0 /\ LastEvent.op \in ResolvingOps) =>
          /\ GetSessionPath(LastEvent.session) # GetSessionPath(Root)
          /\ \E n \in SessionNames :
                GetSessionPath(LastEvent.session) = GetSessionPath(Root) \o n
          /\ sessions[LastEvent.session].exists
          /\ sessions[LastEvent.session].info
    /\ sessions[Root].files = {}

\* C38 as stated: a provisioner call leaves every file that was there before
\* the call in place and unchanged.
C38_PreExistingFilesUnchanged ==
    [][\A p \in TempPaths :
          fsys[p] \in {UserFile, Occupied} => fsys'[p] = fsys[p]]_vars

====
